---- MODULE Spec2Model ----
(***************************************************************************)
(* A model of the resume / job-description analysis services of            *)
(* RES_Checker: NlpService (common.module.ts), JobDescriptionService       *)
(* (job-description.service.ts), ResumeService (resume.service.ts), the    *)
(* interview preparation and the skill recommendations of SkillsService    *)
(* (skills.service.ts) with its question bank and skill taxonomy, and the  *)
(* controllers in front of them.                                           *)
(*                                                                         *)
(* Texts are TLA+ strings; the JavaScript string operations the code uses  *)
(* (toLowerCase, includes, indexOf, substring, the regular expressions)    *)
(* are modelled character by character on them.                            *)
(***************************************************************************)
EXTENDS Integers, Sequences, FiniteSets, TLC

VARIABLES
    documents,  \* NlpService.tfidf.documents of each module's NlpService
    resp,       \* the response of the request that completed last
    skillsLog,  \* every (text, result) of the extractSkills calls so far
    lastSkillCall, \* the text and the result of the latest extractSkills call
    coreIn,     \* the inputs of the core function applied last (SpecCore)
    coreOut     \* its result (SpecCore)

vars == <<documents, resp, skillsLog, lastSkillCall, coreIn, coreOut>>

-----------------------------------------------------------------------------
(* Bounds of the model.                                                    *)

\* The largest number of years a generated text states.
MaxYears == 10
\* The distance between the required and the preferred years of a job text.
PrefGap == 3
\* The largest number of requests the services serve in a behaviour.
MaxDocs == 3

-----------------------------------------------------------------------------
(* JavaScript strings.                                                     *)

UpperChars == "ABCDEFGHIJKLMNOPQRSTUVWXYZ"
LowerChars == "abcdefghijklmnopqrstuvwxyz"
DigitChars == "0123456789"

CharAt(s, i) == SubSeq(s, i, i)

\* The 1-based position of the one-character string c in alphabet, 0 if absent.
PosIn(c, alphabet) ==
    IF \E i \in 1..Len(alphabet) : CharAt(alphabet, i) = c
    THEN CHOOSE i \in 1..Len(alphabet) : CharAt(alphabet, i) = c
    ELSE 0

Digits == {CharAt(DigitChars, i) : i \in 1..Len(DigitChars)}
Uppers == {CharAt(UpperChars, i) : i \in 1..Len(UpperChars)}
Lowers == {CharAt(LowerChars, i) : i \in 1..Len(LowerChars)}

IsDigit(c) == c \in Digits
IsUpper(c) == c \in Uppers
IsLower(c) == c \in Lowers
IsWordChar(c) == IsDigit(c) \/ IsUpper(c) \/ IsLower(c)
IsSpace(c) == c \in {" ", "\n", "\t"}

LowerChar(c) == IF IsUpper(c) THEN CharAt(LowerChars, PosIn(c, UpperChars)) ELSE c

\* String.prototype.toLowerCase, a half of the string at a time.
RECURSIVE toLowerCase(_)
toLowerCase(s) ==
    IF Len(s) = 0 THEN ""
    ELSE IF Len(s) = 1 THEN LowerChar(s)
    ELSE toLowerCase(SubSeq(s, 1, Len(s) \div 2))
            \o toLowerCase(SubSeq(s, (Len(s) \div 2) + 1, Len(s)))

\* String.prototype.substring(start, end) with 0-based, in-range arguments.
substring(s, start, end) == SubSeq(s, start + 1, end)

\* Whether p occurs in s at the 0-based index i.
OccursAt(s, p, i) == i + Len(p) <= Len(s) /\ SubSeq(s, i + 1, i + Len(p)) = p

includes(s, p) == \E i \in 0..(Len(s) - Len(p)) : OccursAt(s, p, i)

\* String.prototype.indexOf: the first 0-based index of p in s, -1 if none.
indexOf(s, p) ==
    LET at == {i \in 0..(Len(s) - Len(p)) : OccursAt(s, p, i)}
    IN IF at = {} THEN -1 ELSE CHOOSE i \in at : \A j \in at : i <= j

\* parseInt of a string of decimal digits.
RECURSIVE parseInt(_)
parseInt(s) ==
    IF Len(s) = 0 THEN 0
    ELSE 10 * parseInt(SubSeq(s, 1, Len(s) - 1)) + (PosIn(CharAt(s, Len(s)), DigitChars) - 1)

\* The decimal numeral of a natural number, as a template literal prints it.
RECURSIVE IntToStr(_)
IntToStr(n) ==
    IF n < 10 THEN CharAt(DigitChars, n + 1)
    ELSE IntToStr(n \div 10) \o CharAt(DigitChars, (n % 10) + 1)

Min(a, b) == IF a <= b THEN a ELSE b
Max(a, b) == IF a >= b THEN a ELSE b

\* Math.round of the non-negative rational num / den: the nearest integer,
\* a half rounded up.
MathRound(num, den) == (2 * num + den) \div (2 * den)

Range(s) == {s[i] : i \in 1..Len(s)}

\* new Set(xs) spread back into an array: the first occurrence of each
\* element, in order.
RECURSIVE Dedup(_)
Dedup(s) ==
    IF Len(s) = 0 THEN <<>>
    ELSE LET front == Dedup(SubSeq(s, 1, Len(s) - 1))
             last == s[Len(s)]
         IN IF last \in Range(front) THEN front ELSE Append(front, last)

-----------------------------------------------------------------------------
(* Tokens: natural.WordTokenizer splits a text at every run of characters  *)
(* that are not letters or digits; compromise's terms are the same runs    *)
(* for the texts of this model (words separated by blanks and              *)
(* punctuation).                                                           *)

InClass(c, k) ==
    CASE k = "word" -> IsWordChar(c)
      [] k = "digit" -> IsDigit(c)
      [] k = "space" -> IsSpace(c)

\* The end (1-based, inclusive) of the run of characters of the class k
\* that starts at i; i - 1 when the run is empty.
RECURSIVE RunEnd(_, _, _)
RunEnd(s, i, k) ==
    IF i <= Len(s) /\ InClass(CharAt(s, i), k) THEN RunEnd(s, i + 1, k) ELSE i - 1

\* String.prototype.trim: the text from after its leading blanks to
\* trimEnd, the position of its last character that is not a blank.
RECURSIVE trimEnd(_, _)
trimEnd(s, n) == IF n > 0 /\ IsSpace(CharAt(s, n)) THEN trimEnd(s, n - 1) ELSE n

trim(s) ==
    IF trimEnd(s, Len(s)) = 0 THEN ""
    ELSE SubSeq(s, RunEnd(s, 1, "space") + 1, trimEnd(s, Len(s)))

\* A sequence given as a function, as a tuple.
Tuple(f) == SubSeq(f, 1, Len(f))

\* The elements of a set of integers in increasing order.
Ascending(S) ==
    Tuple([r \in 1..Cardinality(S) |->
        CHOOSE y \in S : Cardinality({z \in S : z < y}) = r - 1])

\* The maximal runs of letters and digits of s, in order: s is cut at the
\* separator nearest to its middle and each part is cut in turn.
RECURSIVE tokenize(_)
tokenize(s) ==
    LET seps == {i \in 1..Len(s) : ~IsWordChar(CharAt(s, i))}
        mid == (Len(s) + 1) \div 2
        dist(i) == IF i >= mid THEN i - mid ELSE mid - i
    IN IF Len(s) = 0 THEN <<>>
       ELSE IF seps = {} THEN <<s>>
       ELSE LET cut == CHOOSE i \in seps :
                            \A j \in seps : dist(i) < dist(j) \/ (dist(i) = dist(j) /\ i <= j)
            IN tokenize(SubSeq(s, 1, cut - 1)) \o tokenize(SubSeq(s, cut + 1, Len(s)))

AllUpper(w) == \A i \in 1..Len(w) : IsUpper(CharAt(w, i))

\* doc.match('#Acronym').out('array'): the terms compromise tags as
\* acronyms, as written in the text: the all-capital words of two letters
\* or more.
acronymPhrases(text) ==
    SelectSeq(tokenize(text), LAMBDA w : Len(w) >= 2 /\ AllUpper(w))

-----------------------------------------------------------------------------
(* The texts the requests carry: a heading, a sentence stating years of    *)
(* experience, and a sentence naming skills.                               *)

JobHead == "Platform Engineer\nOur product group is growing and needs you. "

\* 118 characters that hold no skill and no required or preferred signal.
Filler ==
    "The group ships one small change a day and reads every note from the people who rely on the product, week after week. "

JobSkillPhrases ==
    << "Must have react and docker. ",
       "Bonus: react, docker, graphql. ",
       "We build on java, postgresql, git and html. ",
       "Essential: AWS and python. " \o Filler \o "Nice to have: docker, graphql and azure. ",
       "Essential: typescript. " \o Filler \o "Preferred: kubernetes and mongodb. ",
       "Send us a short note. " >>

JobYearForms == {"none", "plain", "both"}

jobYearsPhrase(form, n) ==
    CASE form = "none" -> ""
      [] form = "plain" -> IntToStr(n) \o " years of industry work. "
      [] form = "both" -> IntToStr(n) \o "+ years required, " \o IntToStr(n + PrefGap)
                            \o "+ years preferred. "

JobText(form, n, k) == JobHead \o jobYearsPhrase(form, n) \o JobSkillPhrases[k]

JobTexts ==
    {JobText("none", 0, k) : k \in 1..Len(JobSkillPhrases)}
    \cup {JobText(form, n, k) :
            form \in {"plain", "both"}, n \in 1..MaxYears, k \in 1..Len(JobSkillPhrases)}

ResumeHead == "Jane Smith\nEmail: jane@mail.org\nSummary: builder of web products. "

ResumeSkillPhrases ==
    << "Skills: React, Docker, GraphQL, Git and Python. ",
       "Skills: JavaScript, AWS and Python. ",
       "Skills: TypeScript, Kubernetes, MongoDB, PostgreSQL. ",
       "Hobbies: chess and hiking. " >>

resumeYearsPhrase(n) ==
    IF n = 0 THEN "" ELSE IntToStr(n) \o " years of industry work. "

ResumeText(n, k) == ResumeHead \o resumeYearsPhrase(n) \o ResumeSkillPhrases[k]

ResumeTexts == {ResumeText(n, k) : n \in 0..MaxYears, k \in 1..Len(ResumeSkillPhrases)}

\* Every text of the model.
\* Texts at the length the controllers require: the first n characters of
\* a sentence, alone and between blanks.
EdgeBodies ==
    [resume |-> "Summary: React and Docker developer, five years on.",
     job    |-> "Hiring: React and Docker needed, graphql preferred.",
     skills |-> "react, sql."]

EdgeTexts(body, n) ==
    {SubSeq(body, 1, n - 1), "  " \o SubSeq(body, 1, n - 1) \o " \n", SubSeq(body, 1, n)}

AllTexts ==
    JobTexts \cup ResumeTexts
        \cup EdgeTexts(EdgeBodies.resume, 50) \cup EdgeTexts(EdgeBodies.job, 50)

-----------------------------------------------------------------------------
(* NlpService.extractSkills                                                *)

techSkills ==
    << "javascript", "python", "java", "react", "angular", "vue",
       "nodejs", "nestjs", "express", "mongodb", "sql", "postgresql",
       "docker", "kubernetes", "aws", "azure", "gcp", "git",
       "typescript", "html", "css", "rest", "graphql", "api" >>

softSkills ==
    << "leadership", "communication", "teamwork", "problem solving",
       "analytical", "creative", "management", "collaboration" >>

allSkills == techSkills \o softSkills

\* extractSkills keeping its Set on the instance: the lexicon entries that
\* are terms of the documents the NlpService instances hold are reported
\* with those of the text.
nlpExtractSkillsKept(text) ==
    LET lowerText == toLowerCase(text)
        hits == SelectSeq(allSkills, LAMBDA skill : includes(lowerText, skill))
        caps == SelectSeq(acronymPhrases(text), LAMBDA phrase : Len(phrase) > 2)
        kept == SelectSeq(allSkills, LAMBDA skill :
                    \E n \in DOMAIN documents : \E d \in 1..Len(documents[n]) :
                        \E k \in 1..Len(documents[n][d]) : documents[n][d][k].term = skill)
    IN Dedup(hits \o caps \o kept)

\* The Set the method fills: the lexicon entries found in the lowercased
\* text, in lexicon order, then the acronym phrases longer than two
\* characters; Set.add keeps one copy of strings that are equal.
nlpExtractSkills(text) ==
    LET lowerText == toLowerCase(text)
        hits == SelectSeq(allSkills, LAMBDA skill : includes(lowerText, skill))
        caps == SelectSeq(acronymPhrases(text), LAMBDA phrase : Len(phrase) > 2)
    IN Dedup(hits \o caps)

-----------------------------------------------------------------------------
(* NlpService.extractExperience                                            *)

\* Whether the literal lit occurs in s at the 1-based position i, ignoring
\* case (the regular expressions carry the i flag).
LitAt(s, i, lit) ==
    i + Len(lit) - 1 <= Len(s) /\ toLowerCase(SubSeq(s, i, i + Len(lit) - 1)) = lit

\* The position just after the optional "+" at i.
SkipPlus(s, i) == IF i <= Len(s) /\ CharAt(s, i) = "+" THEN i + 1 ELSE i

\* (\d+)\+?\s*<unit> tried at the 1-based position i: the position of the
\* unit word if the pattern matches there, 0 otherwise. The digits, the
\* "+" and the blanks cannot be given back, as the unit starts with none.
YearsAt(s, i, unit) ==
    IF i > Len(s) \/ ~IsDigit(CharAt(s, i)) THEN 0
    ELSE LET d == RunEnd(s, i, "digit")
             p == SkipPlus(s, d + 1)
             u == RunEnd(s, p, "space") + 1
         IN IF LitAt(s, u, unit) THEN u ELSE 0

\* (\d+)\s*-\s*(\d+)\s*years? tried at the 1-based position i.
RangeAt(s, i) ==
    IF i > Len(s) \/ ~IsDigit(CharAt(s, i)) THEN 0
    ELSE LET d == RunEnd(s, i, "digit")
             h == RunEnd(s, d + 1, "space") + 1
         IN IF h > Len(s) \/ CharAt(s, h) # "-" THEN 0
            ELSE LET n == RunEnd(s, h + 1, "space") + 1
                 IN IF n > Len(s) \/ ~IsDigit(CharAt(s, n)) THEN 0
                    ELSE LET e == RunEnd(s, n, "digit")
                             u == RunEnd(s, e + 1, "space") + 1
                         IN IF LitAt(s, u, "year") THEN u ELSE 0

\* text.match(pattern) for the pattern of index k: the leftmost position
\* where it matches, 0 if it matches nowhere.
PatternAt(s, i, k) ==
    CASE k = 1 -> YearsAt(s, i, "year")
      [] k = 2 -> YearsAt(s, i, "yr")
      [] k = 3 -> RangeAt(s, i)

FirstMatch(s, k) ==
    LET at == {i \in 1..Len(s) : PatternAt(s, i, k) > 0}
    IN IF at = {} THEN 0 ELSE CHOOSE i \in at : \A j \in at : i <= j

\* match[1]: the digits captured at the position i.
Group1(s, i) == SubSeq(s, i, RunEnd(s, i, "digit"))

RECURSIVE TryPatterns(_, _)
TryPatterns(s, k) ==
    IF k > 3 THEN 0
    ELSE LET m == FirstMatch(s, k)
         IN IF m > 0 THEN parseInt(Group1(s, m)) ELSE TryPatterns(s, k + 1)

nlpExtractExperience(text) == TryPatterns(text, 1)

\* Texts with one mention of years: a number, a number with "+", and a
\* range from n to n + PrefGap, written with and without blanks.
ExperienceTexts ==
    {"Worked on web products."}
    \cup {"Worked " \o IntToStr(n) \o wording \o " on web products." :
             n \in 1..MaxYears, wording \in {" years", "+ yrs"}}
    \cup {"Worked " \o IntToStr(n) \o dash \o IntToStr(n + PrefGap) \o " years on web products." :
             n \in 1..MaxYears, dash \in {"-", " - "}}

-----------------------------------------------------------------------------
(* NlpService.extractSections                                              *)

sectionNames ==
    <<"summary", "experience", "education", "skills",
      "projects", "certifications", "achievements", "contact">>

\* The alternatives of the regular expression of each section.
sectionPatterns ==
    [summary        |-> <<"summary", "objective", "profile">>,
     experience     |-> <<"experience", "employment", "work history">>,
     education      |-> <<"education", "academic", "degree", "university">>,
     skills         |-> <<"skills", "technical", "competencies">>,
     projects       |-> <<"projects", "portfolio">>,
     certifications |-> <<"certification", "certificate", "licensed">>,
     achievements   |-> <<"achievement", "award", "honor">>,
     contact        |-> <<"email", "phone", "linkedin", "github">>]

\* /a|b|c/i.test(text): some alternative matches at some position.
regexTest(alternatives, text) ==
    \E i \in 1..Len(text) : \E k \in 1..Len(alternatives) :
        LitAt(text, i, alternatives[k])

\* A variant that reads the alternatives with their case.
nlpExtractSectionsCased(text) ==
    [name \in Range(sectionNames) |->
        \E k \in 1..Len(sectionPatterns[name]) : includes(text, sectionPatterns[name][k])]

nlpExtractSections(text) ==
    [name \in Range(sectionNames) |-> regexTest(sectionPatterns[name], text)]

\* Resume fragments that name sections under their synonyms, in several
\* casings, alone, inside longer words and together.
SectionWords ==
    <<"Email ", "Summary ", "Experience ", "Education ",
      "Skills ", "Projects ", "Certification ", "Achievement ">>

RECURSIVE SectionPrefix(_)
SectionPrefix(k) == IF k = 0 THEN "" ELSE SectionPrefix(k - 1) \o SectionWords[k]

SectionTexts ==
    {SectionPrefix(k) : k \in 0..Len(SectionWords)}
    \cup {"Objective: ship reliable software", "PROFILE", "my summary",
          "Work History at Acme", "employment record", "Inexperienced",
          "B.Sc. degree, State University", "ACADEMIC record",
          "Technical competencies", "SKILLS", "Portfolio of PROJECTS",
          "Licensed electrician, Certificate II", "Awards and honors",
          "Phone 555 0100", "LinkedIn and GitHub", "Nothing to report"}

-----------------------------------------------------------------------------
(* JobDescriptionService                                                   *)

\* The length of the context taken on each side of a skill's first
\* occurrence.
ContextRadius == 100

requiredSignals == <<"required", "must have", "essential">>
preferredSignals == <<"preferred", "nice to have", "bonus">>

HasSignal(context, signals) ==
    \E k \in 1..Len(signals) : includes(context, signals[k])

\* A variant that looks for the preferred signals first.
skillBucketPreferredFirst(lowerText, skill) ==
    LET skillIndex == indexOf(lowerText, toLowerCase(skill))
    IN IF skillIndex = -1 THEN "none"
       ELSE LET start == Max(0, skillIndex - ContextRadius)
                end == Min(Len(lowerText), skillIndex + ContextRadius)
                context == substring(lowerText, start, end)
            IN IF HasSignal(context, preferredSignals) THEN "preferred"
               ELSE IF HasSignal(context, requiredSignals) THEN "required"
               ELSE "required"

\* The bucket of one skill of the job text: "required", "preferred", or
\* "none" when the lowercased skill is not found in the lowercased text.
skillBucket(lowerText, skill) ==
    LET skillIndex == indexOf(lowerText, toLowerCase(skill))
    IN IF skillIndex = -1 THEN "none"
       ELSE LET start == Max(0, skillIndex - ContextRadius)
                end == Min(Len(lowerText), skillIndex + ContextRadius)
                context == substring(lowerText, start, end)
            IN IF HasSignal(context, requiredSignals) THEN "required"
               ELSE IF HasSignal(context, preferredSignals) THEN "preferred"
               ELSE "required"

\* A variant that lists as preferred every skill with a preferred signal
\* around it.
jobExtractSkillsBySignal(jobText) ==
    LET found == nlpExtractSkills(jobText)
        lowerText == toLowerCase(jobText)
    IN [ required |->
            Dedup(SelectSeq(found, LAMBDA sk : skillBucket(lowerText, sk) = "required")),
         preferred |->
            Dedup(SelectSeq(found, LAMBDA sk :
                     skillBucketPreferredFirst(lowerText, sk) = "preferred")) ]

jobExtractSkills(jobText) ==
    LET found == nlpExtractSkills(jobText)
        lowerText == toLowerCase(jobText)
    IN [ required |->
            Dedup(SelectSeq(found, LAMBDA sk : skillBucket(lowerText, sk) = "required")),
         preferred |->
            Dedup(SelectSeq(found, LAMBDA sk : skillBucket(lowerText, sk) = "preferred")) ]

\* .+?(?:preferred|ideal) tried from the 1-based position from: some
\* "preferred" or "ideal" starts at least one character later, with no
\* line terminator before it.
QualifierAfter(s, from) ==
    \E q \in (from + 1)..Len(s) :
        /\ LitAt(s, q, "preferred") \/ LitAt(s, q, "ideal")
        /\ \A k \in from..(q - 1) : CharAt(s, k) \notin {"\n", "\r"}

\* jobText.match(/(\d+)\+?\s*years?.+?(?:preferred|ideal)/i): the leftmost
\* position where the pattern matches, 0 if none. The "s" of "years" is
\* optional, so the lazy .+? may start right after "year".
preferredMatch(s) ==
    LET at == {i \in 1..Len(s) :
                 /\ YearsAt(s, i, "year") > 0
                 /\ QualifierAfter(s, YearsAt(s, i, "year") + Len("year"))}
    IN IF at = {} THEN 0 ELSE CHOOSE i \in at : \A j \in at : i <= j

\* jobLevel with its top boundary moved from 8 to 9.
jobLevelAboveEight(minYears) ==
    IF minYears > 8 THEN "Senior/Lead"
    ELSE IF minYears >= 5 THEN "Senior"
    ELSE IF minYears >= 3 THEN "Mid-Level"
    ELSE IF minYears >= 1 THEN "Junior"
    ELSE "Entry Level"

jobLevel(minYears) ==
    IF minYears >= 8 THEN "Senior/Lead"
    ELSE IF minYears >= 5 THEN "Senior"
    ELSE IF minYears >= 3 THEN "Mid-Level"
    ELSE IF minYears >= 1 THEN "Junior"
    ELSE "Entry Level"

extractExperienceLevel(jobText) ==
    LET minYears == nlpExtractExperience(jobText)
        m == preferredMatch(jobText)
        preferred == IF m > 0 THEN parseInt(Group1(jobText, m)) ELSE minYears
    IN [minimum |-> minYears, preferred |-> preferred, level |-> jobLevel(minYears)]

\* resSkill and skill contain one another, ignoring case.
\* A variant that takes equal names only.
skillMatchesEqual(resSkill, skill) == toLowerCase(resSkill) = toLowerCase(skill)

skillMatches(resSkill, skill) ==
    \/ includes(toLowerCase(resSkill), toLowerCase(skill))
    \/ includes(toLowerCase(skill), toLowerCase(resSkill))

\* skills.filter(s => resumeSkills.some(r => ...)) and its complement.
matchedOf(resumeSkills, skills) ==
    SelectSeq(skills, LAMBDA sk :
        \E k \in 1..Len(resumeSkills) : skillMatches(resumeSkills[k], sk))

missingOf(resumeSkills, skills) ==
    SelectSeq(skills, LAMBDA sk :
        ~\E k \in 1..Len(resumeSkills) : skillMatches(resumeSkills[k], sk))

\* The points given when the job lists no required skill.
DefaultScore == 50
RequiredWeight == 70
PreferredWeight == 30

\* calculateMatchScore giving the weight to each matched skill, not to the
\* matched share of the list.
calculateMatchScorePerSkill(resumeSkills, requiredSkills, preferredSkills) ==
    LET matchedRequired == Len(matchedOf(resumeSkills, requiredSkills))
        matchedPreferred == Len(matchedOf(resumeSkills, preferredSkills))
    IN IF Len(requiredSkills) = 0 THEN DefaultScore
       ELSE matchedRequired * RequiredWeight
              + (IF Len(preferredSkills) > 0 THEN matchedPreferred * PreferredWeight
                 ELSE PreferredWeight)

\* calculateMatchScore without its early return: an empty list of required
\* skills earns nothing and the preferred skills are scored as usual.
calculateMatchScoreNoDefault(resumeSkills, requiredSkills, preferredSkills) ==
    LET totalRequired == Len(requiredSkills)
        totalPreferred == Len(preferredSkills)
        matchedRequired == Len(matchedOf(resumeSkills, requiredSkills))
        matchedPreferred == Len(matchedOf(resumeSkills, preferredSkills))
        requiredPart == IF totalRequired = 0 THEN 0
                        ELSE (matchedRequired * RequiredWeight) \div totalRequired
        preferredPart == IF totalPreferred = 0 THEN PreferredWeight
                         ELSE (matchedPreferred * PreferredWeight) \div totalPreferred
    IN requiredPart + preferredPart

\* A variant that scores the share of the resume's skills that a required
\* skill matches.
calculateMatchScoreOfResume(resumeSkills, requiredSkills, preferredSkills) ==
    IF Len(requiredSkills) = 0 THEN DefaultScore
    ELSE IF Len(resumeSkills) = 0 THEN 0
    ELSE MathRound(Len(matchedOf(requiredSkills, resumeSkills)) * 100, Len(resumeSkills))

calculateMatchScore(resumeSkills, requiredSkills, preferredSkills) ==
    LET totalRequired == Len(requiredSkills)
        totalPreferred == Len(preferredSkills)
        matchedRequired == Len(matchedOf(resumeSkills, requiredSkills))
        matchedPreferred == Len(matchedOf(resumeSkills, preferredSkills))
    IN IF totalRequired = 0 THEN DefaultScore
       ELSE IF totalPreferred > 0
            THEN \* matchedRequired / totalRequired * 70
                 \*   + matchedPreferred / totalPreferred * 30
                 MathRound(matchedRequired * RequiredWeight * totalPreferred
                              + matchedPreferred * PreferredWeight * totalRequired,
                           totalRequired * totalPreferred)
            ELSE MathRound(matchedRequired * RequiredWeight
                              + PreferredWeight * totalRequired,
                           totalRequired)

\* Array.prototype.join(', ').
RECURSIVE join(_)
join(xs) ==
    IF Len(xs) = 0 THEN ""
    ELSE IF Len(xs) = 1 THEN xs[1]
    ELSE xs[1] \o ", " \o join(Tail(xs))

\* Array.prototype.slice(0, n).
slice(xs, n) == SubSeq(xs, 1, Min(n, Len(xs)))

closingTips ==
    << "Tailor your resume to include keywords from this job description.",
       "Highlight projects or experiences that demonstrate the required skills." >>

\* A variant that names every missing skill.
generateRecommendationsUncut(resumeSkills, requiredSkills, preferredSkills) ==
    LET missingRequired == missingOf(resumeSkills, requiredSkills)
        missingPreferred == missingOf(resumeSkills, preferredSkills)
    IN (IF Len(missingRequired) > 0
        THEN << "Critical: Add these required skills to your resume: "
                    \o join(missingRequired),
                "Consider taking online courses or building projects to gain these skills." >>
        ELSE <<>>)
       \o (IF Len(missingPreferred) > 0
           THEN << "Enhance your profile with these preferred skills: "
                       \o join(missingPreferred) >>
           ELSE <<>>)
       \o closingTips

generateRecommendations(resumeSkills, requiredSkills, preferredSkills) ==
    LET missingRequired == missingOf(resumeSkills, requiredSkills)
        missingPreferred == missingOf(resumeSkills, preferredSkills)
    IN (IF Len(missingRequired) > 0
        THEN << "Critical: Add these required skills to your resume: "
                    \o join(slice(missingRequired, 5)),
                "Consider taking online courses or building projects to gain these skills." >>
        ELSE <<>>)
       \o (IF Len(missingPreferred) > 0
           THEN << "Enhance your profile with these preferred skills: "
                       \o join(slice(missingPreferred, 3)) >>
           ELSE <<>>)
       \o closingTips

\* String.prototype.split('\n').
split(text) ==
    LET newlines == {p \in 1..Len(text) : CharAt(text, p) = "\n"}
        at(k) == IF k = 0 THEN 0
                 ELSE IF k > Cardinality(newlines) THEN Len(text) + 1
                 ELSE CHOOSE p \in newlines : Cardinality({q \in newlines : q <= p}) = k
    IN Tuple([k \in 1..(Cardinality(newlines) + 1) |->
                 SubSeq(text, at(k - 1) + 1, at(k) - 1)])

\* line.match(rolePatterns[k]), lower being the line in lower case:
\* <<match[1].trim()>>, or <<>> without a match. The match is the leftmost
\* one. In the first pattern,
\* /(?:position|role|title|job)\s*:?\s*(.+)/i, the group takes what follows
\* the blanks and the colon after the word; when nothing follows, the
\* blanks and the colon give their last character back to the group, and
\* a word that ends the line does not match. In the second,
\* /hiring\s+(?:a|an)?\s*(.+?)(?:\s+to|\s+for|$)/i, the alternative "a" is
\* tried first and kept whenever a character is left for the group, which
\* stops before the first blanks followed by "to" or "for", or at the end.
roleMatch(line, lower, k) ==
    IF k = 1
      THEN LET at == {p \in 1..Len(line) :
                         \E w \in {"position", "role", "title", "job"} :
                            OccursAt(lower, w, p - 1) /\ p + Len(w) <= Len(line)}
               p == CHOOSE p \in at : \A q \in at : p <= q
               w == CHOOSE w \in {"position", "role", "title", "job"} : OccursAt(lower, w, p - 1)
               c == RunEnd(line, p + Len(w), "space") + 1
               d == IF c <= Len(line) /\ CharAt(line, c) = ":" THEN c + 1 ELSE c
               e == RunEnd(line, d, "space") + 1
           IN IF at = {} THEN <<>>
              ELSE IF e <= Len(line) THEN <<trim(SubSeq(line, e, Len(line)))>>
              ELSE IF CharAt(line, Len(line)) = ":" THEN <<":">>
              ELSE <<"">>
      ELSE LET at == {p \in 1..Len(line) :
                         /\ OccursAt(lower, "hiring", p - 1)
                         /\ p + 7 <= Len(line)
                         /\ IsSpace(CharAt(line, p + 6))}
               p == CHOOSE p \in at : \A q \in at : p <= q
               a == RunEnd(line, p + 6, "space") + 1
               b == IF a <= Len(line) /\ LowerChar(CharAt(line, a)) = "a"
                      THEN a + 1 ELSE a
               s == RunEnd(line, b, "space") + 1
               ends == {e \in s..Len(line) :
                           \/ e = Len(line)
                           \/ /\ IsSpace(CharAt(line, e + 1))
                              /\ \/ OccursAt(lower, "to", RunEnd(line, e + 1, "space"))
                                 \/ OccursAt(lower, "for", RunEnd(line, e + 1, "space"))}
           IN IF at = {} THEN <<>>
              ELSE IF s <= Len(line)
                THEN <<trim(SubSeq(line, s, CHOOSE e \in ends : \A f \in ends : e <= f))>>
              ELSE IF b = a + 1 /\ a = Len(line) THEN <<CharAt(line, a)>>
              ELSE <<"">>

\* The lines extractRole looks at, and the length below which a line that
\* starts with a capital letter passes for a title.
RoleLines == 5
TitleLength == 50

\* JobDescriptionService.extractRole: per line, the first pattern, then
\* the second, then the title test, before the next line is looked at.
extractRole(jobText) ==
    LET lines == slice(SelectSeq(split(jobText), LAMBDA line : Len(trim(line)) > 0),
                       RoleLines)
        found(line) ==
            IF roleMatch(line, toLowerCase(line), 1) # <<>>
              THEN roleMatch(line, toLowerCase(line), 1)
            ELSE IF roleMatch(line, toLowerCase(line), 2) # <<>>
              THEN roleMatch(line, toLowerCase(line), 2)
            ELSE IF Len(line) < TitleLength /\ IsUpper(CharAt(line, 1))
              THEN <<trim(line)>>
            ELSE <<>>
        hits == {i \in 1..Len(lines) : found(lines[i]) # <<>>}
    IN IF hits = {} THEN "Not specified"
       ELSE found(lines[CHOOSE i \in hits : \A j \in hits : i <= j])[1]

\* trimmed.replace(/^[-•*\d.)\]]+\s*/, ''); the bullet character, which no
\* string of this notation holds, is in no text of the model.
cleaned(trimmed) ==
    LET marks == {i \in 0..Len(trimmed) :
                     \A j \in 1..i : \/ IsDigit(CharAt(trimmed, j))
                                     \/ CharAt(trimmed, j) \in {"-", "*", ".", ")", "]"}}
        m == CHOOSE i \in marks : \A j \in marks : j <= i
    IN IF m = 0 THEN trimmed
       ELSE SubSeq(trimmed, RunEnd(trimmed, m + 1, "space") + 1, Len(trimmed))

\* The length a cleaned line has to exceed, the length it has to stay
\* below, and the items returned at most.
MinItemLength == 20
MaxItemLength == 200
ItemLimit == 8

\* The loop of extractResponsibilities and of extractQualifications from
\* the i-th line on: a line with a start marker opens the section and is
\* passed over, a line with a stop marker inside the section ends the
\* loop, any other line inside the section is pushed when the length of
\* its cleaned text lies between the two limits.
RECURSIVE sectionItems(_, _, _, _, _)
sectionItems(lines, i, inSection, start, stop) ==
    IF i > Len(lines) THEN <<>>
    ELSE IF \E k \in 1..Len(start) : includes(toLowerCase(trim(lines[i])), start[k])
      THEN sectionItems(lines, i + 1, TRUE, start, stop)
    ELSE IF /\ inSection
            /\ \E k \in 1..Len(stop) : includes(toLowerCase(trim(lines[i])), stop[k])
      THEN <<>>
    ELSE (IF /\ inSection
             /\ Len(cleaned(trim(lines[i]))) > MinItemLength
             /\ Len(cleaned(trim(lines[i]))) < MaxItemLength
            THEN <<cleaned(trim(lines[i]))>> ELSE <<>>)
         \o sectionItems(lines, i + 1, inSection, start, stop)

extractResponsibilities(jobText) ==
    slice(sectionItems(split(jobText), 1, FALSE,
                       <<"responsibilities", "duties", "what you'll do">>,
                       <<"qualifications", "requirements", "skills">>),
          ItemLimit)

extractQualifications(jobText) ==
    slice(sectionItems(split(jobText), 1, FALSE,
                       <<"qualifications", "requirements", "what we're looking for">>,
                       <<"responsibilities", "about us", "company">>),
          ItemLimit)

-----------------------------------------------------------------------------
(* ResumeService                                                           *)

\* resumeLevel with its top boundary moved from 10 to 8.
resumeLevelLeadAtEight(years) ==
    IF years >= 8 THEN "Lead/Principal"
    ELSE IF years >= 5 THEN "Senior"
    ELSE IF years >= 2 THEN "Intermediate"
    ELSE "Entry Level"

resumeLevel(years) ==
    IF years >= 10 THEN "Lead/Principal"
    ELSE IF years >= 5 THEN "Senior"
    ELSE IF years >= 2 THEN "Intermediate"
    ELSE "Entry Level"

analyzeExperience(resumeText) ==
    LET years == nlpExtractExperience(resumeText)
    IN [years |-> years, level |-> resumeLevel(years)]

\* ResumeService.analyzeSections, from the flags extractSections returns.
analyzeSections(extractedSections) ==
    [found   |-> SelectSeq(<<"contact", "summary", "experience", "education", "skills",
                             "projects", "certifications", "achievements">>,
                           LAMBDA section : extractedSections[section]),
     missing |-> SelectSeq(<<"contact", "summary", "experience", "education", "skills">>,
                           LAMBDA section : ~extractedSections[section])]

\* A variant whose skills score has no ceiling.
calculateOverallScoreOpenSkills(sections, skills, experience, assessment) ==
    MathRound(Min(Len(sections.found) * 40 * 10
                    + Len(skills.found) * 30 * 8
                    + (IF experience.years > 0 THEN 15 ELSE 0) * 80
                    + (CASE assessment = "positive" -> 15
                         [] assessment = "neutral" -> 10
                         [] OTHER -> 5) * 80,
                  100 * 80),
              80)

\* The score is kept as a fraction of denominator 8 * 10 until it is
\* rounded.
calculateOverallScore(sections, skills, experience, assessment) ==
    MathRound(Min(Len(sections.found) * 40 * 10
                    + Min(Len(skills.found) * 30 * 8, 30 * 80)
                    + (IF experience.years > 0 THEN 15 ELSE 0) * 80
                    + (CASE assessment = "positive" -> 15
                         [] assessment = "neutral" -> 10
                         [] OTHER -> 5) * 80,
                  100 * 80),
              80)

\* The resumes scored: 0 to 8 sections named, with and without a statement
\* of years; the skills found are the first n entries of the lexicon; the
\* assessment is any of those the sentiment analyzer gives.
MaxSkills == 11
ScoreTexts ==
    {SectionPrefix(k) \o resumeYearsPhrase(n) : k \in 0..Len(SectionWords), n \in {0, 3}}
sectionsOf == [t \in ScoreTexts |-> analyzeSections(nlpExtractSections(t))]

\* The skill taxonomy of skills-database.ts.
SKILLS_DATABASE ==
    << [category |-> "Frontend Development", skills |->
          <<"HTML", "CSS", "JavaScript", "TypeScript", "React", "Angular",
            "Vue.js", "Redux", "Webpack", "Sass", "Tailwind CSS",
            "Bootstrap", "Next.js", "Responsive Design",
            "Web Accessibility">>],
       [category |-> "Backend Development", skills |->
          <<"Node.js", "NestJS", "Express.js", "Python", "Django", "Flask",
            "Java", "Spring Boot", "PHP", "Laravel", "Ruby on Rails",
            "RESTful APIs", "GraphQL", "Microservices", "Authentication">>],
       [category |-> "Databases", skills |->
          <<"MongoDB", "PostgreSQL", "MySQL", "Redis", "SQLite", "Oracle",
            "SQL Server", "Database Design", "Query Optimization", "NoSQL",
            "Cassandra", "DynamoDB">>],
       [category |-> "DevOps & Cloud", skills |->
          <<"Docker", "Kubernetes", "AWS", "Azure", "Google Cloud Platform",
            "CI/CD", "Jenkins", "GitHub Actions", "Terraform", "Ansible",
            "Linux", "Shell Scripting", "Nginx", "Monitoring">>],
       [category |-> "Mobile Development", skills |->
          <<"React Native", "Flutter", "Swift", "Kotlin", "Android", "iOS",
            "Xamarin", "Mobile UI/UX", "App Store Deployment",
            "Push Notifications", "Offline Storage">>],
       [category |-> "Data Science & AI", skills |->
          <<"Python", "R", "Machine Learning", "TensorFlow", "PyTorch",
            "Scikit-learn", "Pandas", "NumPy", "Data Visualization", "SQL",
            "Statistics", "Deep Learning", "NLP", "Computer Vision">>],
       [category |-> "Testing & QA", skills |->
          <<"Jest", "Mocha", "Cypress", "Selenium", "Pytest", "Unit Testing",
            "Integration Testing", "Test Automation", "Performance Testing",
            "Security Testing", "Bug Tracking">>],
       [category |-> "Soft Skills", skills |->
          <<"Communication", "Leadership", "Team Collaboration",
            "Problem Solving", "Critical Thinking", "Time Management",
            "Adaptability", "Project Management", "Agile/Scrum",
            "Mentoring">>],
       [category |-> "Tools & Version Control", skills |->
          <<"Git", "GitHub", "GitLab", "Bitbucket", "JIRA", "Confluence",
            "Slack", "VS Code", "IntelliJ IDEA", "Postman", "Figma">>] >>

\* The category of the first entry that lists the skill, ignoring case;
\* "" stands for null.
findSkillCategory(skill) ==
    LET listing == {k \in 1..Len(SKILLS_DATABASE) :
                       \E i \in 1..Len(SKILLS_DATABASE[k].skills) :
                           toLowerCase(SKILLS_DATABASE[k].skills[i]) = toLowerCase(skill)}
    IN IF listing = {} THEN ""
       ELSE SKILLS_DATABASE[CHOOSE k \in listing : \A j \in listing : k <= j].category

\* byCategory of analyzeSkills: for each category, in the order of the
\* taxonomy, the found skills it lists, when there are any.
byCategory(foundSkills) ==
    SelectSeq([k \in 1..Len(SKILLS_DATABASE) |->
                  [category |-> SKILLS_DATABASE[k].category,
                   skills |-> SelectSeq(foundSkills, LAMBDA skill :
                       \E i \in 1..Len(SKILLS_DATABASE[k].skills) :
                           toLowerCase(SKILLS_DATABASE[k].skills[i]) = toLowerCase(skill))]],
              LAMBDA group : group.skills # <<>>)

\* The skills looked up: every name of the taxonomy, names in another
\* case, and a name it does not hold.
LookupSkills ==
    UNION {Range(SKILLS_DATABASE[k].skills) : k \in 1..Len(SKILLS_DATABASE)}
        \cup {"python", "REACT", "sql", "cobol"}

-----------------------------------------------------------------------------
(* SkillsService: interview preparation                                    *)

Question(question, category, difficulty, skills) ==
    [question |-> question, category |-> category,
     difficulty |-> difficulty, skills |-> skills]

INTERVIEW_QUESTIONS ==
    << Question("Explain the difference between var, let, and const in JavaScript.",
                "JavaScript", "easy", <<"JavaScript", "TypeScript">>),
       Question("What is closure in JavaScript? Provide an example.",
                "JavaScript", "medium", <<"JavaScript">>),
       Question("Explain the event loop in Node.js and how it handles asynchronous operations.",
                "JavaScript", "hard", <<"Node.js", "JavaScript">>),
       Question("What are React Hooks and why were they introduced?",
                "Frontend", "medium", <<"React">>),
       Question("Explain the difference between useEffect and useLayoutEffect.",
                "Frontend", "hard", <<"React">>),
       Question("How would you optimize the performance of a React application?",
                "Frontend", "hard", <<"React", "Performance">>),
       Question("What is the difference between SQL and NoSQL databases? When would you use each?",
                "Backend", "medium", <<"Databases", "MongoDB", "SQL">>),
       Question("Explain RESTful API design principles and best practices.",
                "Backend", "medium", <<"REST API", "Backend">>),
       Question("How would you implement authentication and authorization in a NestJS application?",
                "Backend", "hard", <<"NestJS", "Security", "Authentication">>),
       Question("Design a URL shortening service like bit.ly.",
                "System Design", "hard", <<"System Design", "Databases", "Backend">>),
       Question("How would you handle rate limiting in a REST API?",
                "System Design", "medium", <<"API Design", "Backend">>),
       Question("Explain the benefits of containerization with Docker.",
                "DevOps", "easy", <<"Docker", "DevOps">>),
       Question("What is CI/CD and how would you implement it?",
                "DevOps", "medium", <<"CI/CD", "DevOps">>),
       Question("Implement a function to reverse a linked list.",
                "Algorithms", "medium", <<"Data Structures", "Algorithms">>),
       Question("Find the first non-repeating character in a string.",
                "Algorithms", "easy", <<"Algorithms", "Problem Solving">>),
       Question("Tell me about a time when you had to debug a difficult production issue.",
                "Behavioral", "medium", <<"Problem Solving", "Communication">>),
       Question("Describe a situation where you had to work with a difficult team member.",
                "Behavioral", "medium", <<"Communication", "Team Collaboration">>),
       Question("How do you prioritize tasks when working on multiple projects?",
                "Behavioral", "easy", <<"Time Management", "Project Management">>),
       Question("What is your approach to writing clean, maintainable code?",
                "General", "medium", <<"Best Practices", "Code Quality">>),
       Question("How do you stay updated with new technologies and trends?",
                "General", "easy", <<"Learning", "Adaptability">>) >>

\* Mutual containment, ignoring case, of a skill of the question and a
\* skill of the list.
getQuestionsBySkills(skills) ==
    SelectSeq(INTERVIEW_QUESTIONS, LAMBDA q :
        \E i \in 1..Len(q.skills) : \E j \in 1..Len(skills) :
            \/ includes(toLowerCase(skills[j]), toLowerCase(q.skills[i]))
            \/ includes(toLowerCase(q.skills[i]), toLowerCase(skills[j])))

questionsOfCategories(categories) ==
    SelectSeq(INTERVIEW_QUESTIONS, LAMBDA q : q.category \in categories)

roleQuestions(roleLower) ==
    (IF includes(roleLower, "frontend")
       THEN questionsOfCategories({"Frontend"}) ELSE <<>>)
    \o (IF includes(roleLower, "backend")
          THEN questionsOfCategories({"Backend"}) ELSE <<>>)
    \o (IF includes(roleLower, "full stack") \/ includes(roleLower, "fullstack")
          THEN questionsOfCategories({"Frontend", "Backend", "System Design"})
          ELSE <<>>)

getRoleSpecificQuestions(role) == roleQuestions(toLowerCase(role))

\* The questions taken of each difficulty, and the questions returned.
PerDifficulty == 5
QuestionLimit == 15

ofDifficulty(questions, difficulty) ==
    slice(SelectSeq(questions, LAMBDA q : q.difficulty = difficulty), PerDifficulty)

\* questions.forEach from the position i on: q is pushed unless a
\* question of the same text is in the list already.
RECURSIVE pushRemaining(_, _, _)
pushRemaining(diversified, questions, i) ==
    IF i > Len(questions) THEN diversified
    ELSE pushRemaining(
             IF \E k \in 1..Len(diversified) :
                    diversified[k].question = questions[i].question
               THEN diversified
               ELSE Append(diversified, questions[i]),
             questions, i + 1)

\* A variant without the second pass.
diversifyQuestionsPicksOnly(questions) ==
    ofDifficulty(questions, "easy")
        \o ofDifficulty(questions, "medium")
        \o ofDifficulty(questions, "hard")

diversifyQuestions(questions) ==
    pushRemaining(ofDifficulty(questions, "easy")
                      \o ofDifficulty(questions, "medium")
                      \o ofDifficulty(questions, "hard"),
                  questions, 1)

\* The list getInterviewPreparation hands to diversifyQuestions; an absent
\* targetRole is the empty string.
gatheredQuestions(skills, targetRole) ==
    getQuestionsBySkills(skills)
        \o (IF targetRole # "" THEN getRoleSpecificQuestions(targetRole) ELSE <<>>)

preparation(skills, targetRole) ==
    [skills    |-> skills,
     questions |-> slice(diversifyQuestions(gatheredQuestions(skills, targetRole)),
                         QuestionLimit)]

getInterviewPreparation(skillsText, targetRole) ==
    preparation(nlpExtractSkills(skillsText), targetRole)

\* The skills texts and target roles of the interview requests.
SkillsTexts ==
    {"React and Docker", "JavaScript, Python", "Hobbies: chess",
     "javascript, react, sql, mongodb, docker, rest, api, nestjs, "
        \o "communication, problem solving"}

TargetRoles ==
    {"", "Frontend Developer", "Backend Engineer", "Full Stack Developer", "Designer"}

-----------------------------------------------------------------------------
(* SkillsService: skill recommendations                                    *)

\* The recommendations array before it is sorted, from the k-th category
\* on: a category of which the lowercased current skills hold a name
\* yields, in its order, every name they do not hold; the four fixed rules
\* follow the last category. targetRole is not read.
RECURSIVE pushedRecommendations(_, _)
pushedRecommendations(currentSkillsLower, k) ==
    IF k <= Len(SKILLS_DATABASE)
      THEN (IF \E i \in 1..Len(SKILLS_DATABASE[k].skills) :
                  toLowerCase(SKILLS_DATABASE[k].skills[i]) \in Range(currentSkillsLower)
            THEN [i \in 1..Len(SelectSeq(SKILLS_DATABASE[k].skills, LAMBDA skill :
                                  toLowerCase(skill) \notin Range(currentSkillsLower))) |->
                     [skill |-> SelectSeq(SKILLS_DATABASE[k].skills, LAMBDA skill :
                                    toLowerCase(skill) \notin Range(currentSkillsLower))[i],
                      category |-> SKILLS_DATABASE[k].category,
                      priority |-> "medium",
                      reason |-> "Complements your existing "
                                    \o SKILLS_DATABASE[k].category \o " skills"]]
            ELSE <<>>)
           \o pushedRecommendations(currentSkillsLower, k + 1)
      ELSE
    (IF /\ Range(currentSkillsLower) \cap {"react", "angular", "vue"} # {}
        /\ "typescript" \notin Range(currentSkillsLower)
       THEN <<[skill |-> "TypeScript", category |-> "Frontend Development",
               priority |-> "high",
               reason |-> "Essential for modern frontend development"]>>
       ELSE <<>>)
    \o (IF /\ Range(currentSkillsLower) \cap {"nodejs", "express", "nestjs"} # {}
           /\ Range(currentSkillsLower) \cap {"mongodb", "postgresql"} = {}
          THEN <<[skill |-> "PostgreSQL", category |-> "Databases",
                  priority |-> "high",
                  reason |-> "Backend developers need database skills"]>>
          ELSE <<>>)
    \o (IF Range(currentSkillsLower) \cap {"jest", "testing", "cypress"} = {}
          THEN <<[skill |-> "Jest (Unit Testing)", category |-> "Testing & QA",
                  priority |-> "high",
                  reason |-> "Testing is crucial for software quality"]>>
          ELSE <<>>)
    \o (IF Range(currentSkillsLower) \cap {"aws", "azure", "gcp"} = {}
          THEN <<[skill |-> "AWS", category |-> "DevOps & Cloud",
                  priority |-> "medium",
                  reason |-> "Cloud skills are highly demanded in the industry"]>>
          ELSE <<>>)

\* The recommendations returned at most.
RecommendationLimit == 10

\* Array.prototype.sort is stable: the items of one priority keep their
\* order.
sortByPriority(recommendations) ==
    SelectSeq(recommendations, LAMBDA r : r.priority = "high")
        \o SelectSeq(recommendations, LAMBDA r : r.priority = "medium")
        \o SelectSeq(recommendations, LAMBDA r : r.priority = "low")

\* A variant that returns the array as it was filled.
generateSkillRecommendationsUnsorted(currentSkills) ==
    slice(pushedRecommendations(Tuple([i \in 1..Len(currentSkills) |->
                                           toLowerCase(currentSkills[i])]), 1),
          RecommendationLimit)

generateSkillRecommendations(currentSkills) ==
    slice(sortByPriority(pushedRecommendations(
              Tuple([i \in 1..Len(currentSkills) |-> toLowerCase(currentSkills[i])]), 1)),
          RecommendationLimit)

\* The paths of suggestCareerPaths whose rule the lowercased skills meet.
careerPaths(skillsLower) ==
    (IF skillsLower \cap {"react", "angular", "vue", "html", "css"} # {}
       THEN <<"Frontend Developer → Senior Frontend → Frontend Architect">> ELSE <<>>)
    \o (IF skillsLower \cap {"nodejs", "python", "java", "api"} # {}
          THEN <<"Backend Developer → Senior Backend → Backend Architect">> ELSE <<>>)
    \o (IF /\ skillsLower \cap {"react", "angular", "vue"} # {}
           /\ skillsLower \cap {"nodejs", "python", "java"} # {}
          THEN <<"Full Stack Developer → Senior Full Stack → Tech Lead">> ELSE <<>>)
    \o (IF skillsLower \cap {"docker", "kubernetes", "aws", "cicd"} # {}
          THEN <<"DevOps Engineer → Senior DevOps → DevOps Architect">> ELSE <<>>)
    \o (IF skillsLower \cap {"python", "sql", "machine learning"} # {}
          THEN <<"Data Analyst → Data Scientist → ML Engineer">> ELSE <<>>)

\* A variant that asks the full-stack path for a backend skill only.
suggestCareerPathsLoose(skills) ==
    IF {toLowerCase(skills[i]) : i \in 1..Len(skills)} # {}
      THEN careerPaths({toLowerCase(skills[i]) : i \in 1..Len(skills)} \cup {"react"})
      ELSE <<"Software Developer → Senior Developer → Tech Lead → Engineering Manager">>

suggestCareerPaths(skills) ==
    IF careerPaths({toLowerCase(skills[i]) : i \in 1..Len(skills)}) # <<>>
      THEN careerPaths({toLowerCase(skills[i]) : i \in 1..Len(skills)})
      ELSE <<"Software Developer → Senior Developer → Tech Lead → Engineering Manager">>

\* The learningResources field, a table lookup for the first recommended
\* skills, is left out of the response.
getSkillRecommendations(currentSkillsText) ==
    [currentSkills |-> nlpExtractSkills(currentSkillsText),
     recommendedSkills |->
        generateSkillRecommendations(nlpExtractSkills(currentSkillsText)),
     careerPaths |-> suggestCareerPaths(nlpExtractSkills(currentSkillsText))]

-----------------------------------------------------------------------------
(* NlpService.extractKeywords on natural.TfIdf                             *)

\* The words of natural's English stopword list that are longer than three
\* letters, and its short words that occur in the texts of the model.
stopwords ==
    { "about", "above", "after", "again", "also", "another", "because",
      "been", "before", "being", "between", "both", "cannot", "come",
      "could", "does", "doing", "during", "each", "from", "further", "have",
      "here", "into", "just", "like", "make", "many", "might", "more",
      "most", "much", "must", "never", "only", "other", "over", "same",
      "should", "since", "some", "still", "such", "take", "than", "that",
      "their", "them", "then", "there", "these", "they", "this", "those",
      "through", "under", "until", "very", "well", "were", "what", "where",
      "when", "which", "while", "with", "would", "your",
      "a", "an", "and", "are", "as", "at", "be", "by", "for", "in", "is",
      "it", "of", "on", "or", "our", "the", "to", "we", "you",
      "0", "1", "2", "3", "4", "5", "6", "7", "8", "9" }

\* 1000000 * (1 + ln(N / (1 + df))) for N documents of which df hold the
\* term: IdfMicro[N][df].
IdfMicro ==
    << <<306853>>,
       <<1000000, 594535>>,
       <<1405465, 1000000, 712318>>,
       <<1693147, 1287682, 1000000, 776856>>,
       <<1916291, 1510826, 1223144, 1000000, 817678>>,
       <<2098612, 1693147, 1405465, 1182322, 1000000, 845849>> >>

\* buildDocument: the term counts of a list of tokens, a term listed where
\* it first occurs, stopwords left out.
countTerms(toks) ==
    LET firsts == {i \in 1..Len(toks) :
                     /\ toks[i] \notin stopwords
                     /\ \A j \in 1..(i - 1) : toks[j] # toks[i]}
        at == Ascending(firsts)
    IN Tuple([r \in 1..Len(at) |->
          [term |-> toks[at[r]],
           tf |-> Cardinality({j \in 1..Len(toks) : toks[j] = toks[at[r]]})]])

buildDocument(text) == countTerms(tokenize(toLowerCase(text)))

\* The document natural builds of each text of the model.
documentOf == [t \in AllTexts |-> buildDocument(toLowerCase(t))]

documentHasTerm(term, doc) == \E k \in 1..Len(doc) : doc[k].term = term

\* tf * idf of one entry of a document, over the documents docs.
tfidfOf(entry, docs) ==
    LET docsWithTerm == Cardinality({d \in 1..Len(docs) : documentHasTerm(entry.term, docs[d])})
    IN entry.tf * IdfMicro[Len(docs)][docsWithTerm]

\* Array.prototype.sort((a, b) => b.score - a.score): stable, descending.
\* An item comes after the items of a higher score and the earlier items
\* of its own score.
SortByScore(xs) ==
    LET rank == Tuple([i \in 1..Len(xs) |->
                    1 + Cardinality({j \in 1..Len(xs) :
                          \/ xs[j].score > xs[i].score
                          \/ xs[j].score = xs[i].score /\ j < i})])
    IN Tuple([r \in 1..Len(xs) |-> xs[CHOOSE i \in 1..Len(xs) : rank[i] = r]])

\* tfidf.listTerms(d) over the documents docs.
listTerms(docs, d) ==
    SortByScore(Tuple([k \in 1..Len(docs[d]) |->
        [term |-> docs[d][k].term, score |-> tfidfOf(docs[d][k], docs)]]))

\* The document extractKeywords lists the terms of.
ListedDocument == 1

\* tfidf.addDocument(text.toLowerCase()) on the documents docs.
addDocument(docs, text) == Append(docs, documentOf[text])

\* extractKeywords(text, topN) on an NlpService whose tfidf holds docs: the
\* documents it leaves, and the keywords it returns.
nlpExtractKeywords(docs, text, topN) ==
    LET after == addDocument(docs, text)
        keywords == SelectSeq(listTerms(after, ListedDocument),
                              LAMBDA item : Len(item.term) > 3)
        top == slice(SortByScore(keywords), topN)
    IN [documents |-> after, keywords |-> Tuple([k \in 1..Len(top) |-> top[k].term])]

\* extractKeywords on a freshly constructed NlpService.
freshKeywords(text, topN) == nlpExtractKeywords(<<>>, text, topN).keywords

JobTopN == 20
ResumeTopN == 15

-----------------------------------------------------------------------------
(* The handlers. What a handler computes from the text alone is tabulated  *)
(* over the texts of the model.                                            *)

\* this.nlpService.extractSkills(text)
extractSkillsOf == [t \in AllTexts |-> nlpExtractSkills(t)]
\* this.extractSkills(jobText) of JobDescriptionService
jobSkillsOf == [t \in JobTexts \cup EdgeTexts(EdgeBodies.job, 50) |-> jobExtractSkills(t)]
\* this.extractExperienceLevel(jobText)
experienceLevelOf == [t \in JobTexts \cup EdgeTexts(EdgeBodies.job, 50) |-> extractExperienceLevel(t)]
\* this.analyzeExperience(resumeText)
experienceOf == [t \in ResumeTexts \cup EdgeTexts(EdgeBodies.resume, 50) |-> analyzeExperience(t)]

\* JobDescriptionService.analyzeJobDescription on a service whose
\* NlpService holds docs: the documents it leaves and the JobAnalysis.
analyzeJobDescription(docs, jobText) ==
    LET skills == jobSkillsOf[jobText]
        kw == nlpExtractKeywords(docs, jobText, JobTopN)
    IN [ documents |-> kw.documents,
         analysis |-> [ role |-> extractRole(jobText),
                        requiredSkills |-> skills.required,
                        preferredSkills |-> skills.preferred,
                        experienceLevel |-> experienceLevelOf[jobText],
                        keywords |-> kw.keywords,
                        responsibilities |-> extractResponsibilities(jobText),
                        qualifications |-> extractQualifications(jobText) ] ]

\* The rest of compareResumeWithJob once analyzeJobDescription has returned
\* jobAnalysis and nlpService.extractSkills(resumeText) resumeSkills.
withMatch(jobAnalysis, resumeSkills) ==
    [ role |-> jobAnalysis.role,
      requiredSkills |-> jobAnalysis.requiredSkills,
      preferredSkills |-> jobAnalysis.preferredSkills,
      experienceLevel |-> jobAnalysis.experienceLevel,
      keywords |-> jobAnalysis.keywords,
      responsibilities |-> jobAnalysis.responsibilities,
      qualifications |-> jobAnalysis.qualifications,
      matchScore |-> calculateMatchScore(resumeSkills,
                        jobAnalysis.requiredSkills, jobAnalysis.preferredSkills),
      recommendations |-> generateRecommendations(resumeSkills,
                        jobAnalysis.requiredSkills, jobAnalysis.preferredSkills) ]

\* done, the outcome of analyzeJobDescription, with its analysis completed
\* by withMatch.
matched(done, resumeSkills) ==
    [documents |-> done.documents, analysis |-> withMatch(done.analysis, resumeSkills)]

\* A variant that analyzes the job text on an NlpService of its own.
compareResumeWithJobApart(docs, resumeText, jobText) ==
    [documents |-> analyzeJobDescription(docs, jobText).documents,
     analysis |-> withMatch(analyzeJobDescription(<<>>, jobText).analysis,
                            extractSkillsOf[resumeText])]

\* JobDescriptionService.compareResumeWithJob on a service whose NlpService
\* holds docs.
compareResumeWithJob(docs, resumeText, jobText) ==
    matched(analyzeJobDescription(docs, jobText), extractSkillsOf[resumeText])

\* ResumeService.analyzeResume on a service whose NlpService holds docs.
analyzeResume(docs, resumeText) ==
    LET kw == nlpExtractKeywords(docs, resumeText, ResumeTopN)
    IN [ documents |-> kw.documents,
         analysis |-> [ skills |-> [found |-> extractSkillsOf[resumeText]],
                        experience |-> experienceOf[resumeText],
                        keywords |-> kw.keywords ] ]

-----------------------------------------------------------------------------
(* Spec: the two services serving requests. Each Nest module provides its  *)
(* own NlpService, which lives as long as the process. A handler runs to   *)
(* its end before the next request is taken up: its only await is on a     *)
(* promise that is already settled.                                        *)

Services == {"resume", "job"}

\* The texts of the requests the services serve.
SvcJobTexts == {JobText("both", 5, 1), JobText("none", 0, 4)}
SvcResumeTexts == {ResumeText(3, 1), ResumeText(0, 2)}

NoResponse == [op |-> "none"]
NoCall == [text |-> "", skills |-> <<>>]
NoInput == [op |-> "none"]
NoResult == [op |-> "none"]

\* The requests served so far.
Served == Len(documents["resume"]) + Len(documents["job"])

Init ==
    /\ documents = [n \in Services |-> <<>>]
    /\ resp = NoResponse
    /\ skillsLog = {}
    /\ lastSkillCall = NoCall
    /\ coreIn = NoInput
    /\ coreOut = NoResult

\* this.nlpService.extractSkills(text) returned skills, after the calls
\* before had returned those of earlier.
LogSkillCalls(earlier, text, skills) ==
    /\ lastSkillCall' = [text |-> text, skills |-> skills]
    /\ skillsLog' = skillsLog \cup earlier \cup {[text |-> text, skills |-> skills]}

\* The service n has served the request op on the texts resume and job
\* with the outcome done.
Respond(n, op, resume, job, done) ==
    /\ documents' = [documents EXCEPT ![n] = done.documents]
    /\ resp' = [op |-> op, resume |-> resume, job |-> job, data |-> done.analysis]

\* POST /resume/analyze
AnalyzeResume(r) ==
    /\ Served < MaxDocs
    /\ Respond("resume", "analyzeResume", r, "", analyzeResume(documents["resume"], r))
    /\ LogSkillCalls({}, r, extractSkillsOf[r])
    /\ UNCHANGED <<coreIn, coreOut>>

\* POST /job-description/analyze
AnalyzeJob(j) ==
    /\ Served < MaxDocs
    /\ Respond("job", "analyzeJobDescription", "", j,
               analyzeJobDescription(documents["job"], j))
    /\ LogSkillCalls({}, j, extractSkillsOf[j])
    /\ UNCHANGED <<coreIn, coreOut>>

\* POST /job-description/compare
Compare(r, j) ==
    /\ Served < MaxDocs
    /\ Respond("job", "compareResumeWithJob", r, j,
               compareResumeWithJob(documents["job"], r, j))
    /\ LogSkillCalls({[text |-> j, skills |-> extractSkillsOf[j]]}, r, extractSkillsOf[r])
    /\ UNCHANGED <<coreIn, coreOut>>

Next ==
    \/ \E r \in SvcResumeTexts : AnalyzeResume(r)
    \/ \E j \in SvcJobTexts : AnalyzeJob(j)
    \/ \E r \in SvcResumeTexts, j \in SvcJobTexts : Compare(r, j)

Spec == Init /\ [][Next]_vars

\* What the request behind a response returns from a service that has
\* served no other request.
soloResponse(op, resume, job) ==
    CASE op = "analyzeResume" -> analyzeResume(<<>>, resume).analysis
      [] op = "analyzeJobDescription" -> analyzeJobDescription(<<>>, job).analysis
      [] op = "compareResumeWithJob" -> compareResumeWithJob(<<>>, resume, job).analysis

-----------------------------------------------------------------------------
(* SpecHttp: the controllers in front of the services. A request whose     *)
(* text is too short is answered with a BadRequestException before the     *)
(* service is called; the others are served as in Spec. An absent body     *)
(* field is the empty string.                                              *)

MinTextLength == 50
MinSkillsLength == 10

\* A variant that measures the text as sent.
tooShortAsSent(text, limit) == text = "" \/ Len(text) < limit

\* !text || text.trim().length < limit
tooShort(text, limit) == text = "" \/ Len(trim(text)) < limit

\* throw new BadRequestException(message): no service has been called.
Reject(op, resume, job, message) ==
    /\ resp' = [op |-> op, resume |-> resume, job |-> job, error |-> message]
    /\ UNCHANGED <<documents, skillsLog, lastSkillCall, coreIn, coreOut>>

\* POST /resume/analyze
PostResumeAnalyze(r) ==
    \/ /\ tooShort(r, MinTextLength)
       /\ Reject("analyzeResume", r, "",
                 "Resume text is too short. Please provide at least 50 characters.")
    \/ /\ ~tooShort(r, MinTextLength)
       /\ AnalyzeResume(r)

\* POST /job-description/analyze
PostJobAnalyze(j) ==
    \/ /\ tooShort(j, MinTextLength)
       /\ Reject("analyzeJobDescription", "", j,
                 "Job description is too short. Please provide at least 50 characters.")
    \/ /\ ~tooShort(j, MinTextLength)
       /\ AnalyzeJob(j)

\* POST /job-description/compare
PostJobCompare(r, j) ==
    \/ /\ tooShort(r, MinTextLength)
       /\ Reject("compareResumeWithJob", r, j, "Resume text is too short")
    \/ /\ ~tooShort(r, MinTextLength)
       /\ tooShort(j, MinTextLength)
       /\ Reject("compareResumeWithJob", r, j, "Job description is too short")
    \/ /\ ~tooShort(r, MinTextLength)
       /\ ~tooShort(j, MinTextLength)
       /\ Compare(r, j)

\* POST /skills/interview-prep; skillsText is carried in the resume field
\* of the response, targetRole in the job field.
PostInterviewPrep(s, role) ==
    \/ /\ tooShort(s, MinSkillsLength)
       /\ Reject("getInterviewPreparation", s, role,
                 "Please provide your skills for interview preparation")
    \/ /\ ~tooShort(s, MinSkillsLength)
       /\ resp' = [op |-> "getInterviewPreparation", resume |-> s, job |-> role,
                   data |-> getInterviewPreparation(s, role)]
       /\ LogSkillCalls({}, s, nlpExtractSkills(s))
       /\ UNCHANGED <<documents, coreIn, coreOut>>

\* The requests carry no text, or a text at the length the route requires.
NextHttp ==
    \/ \E r \in {""} \cup EdgeTexts(EdgeBodies.resume, MinTextLength) :
          PostResumeAnalyze(r)
    \/ \E j \in {""} \cup EdgeTexts(EdgeBodies.job, MinTextLength) :
          PostJobAnalyze(j)
    \/ \E r \in EdgeTexts(EdgeBodies.resume, MinTextLength) :
          \E j \in EdgeTexts(EdgeBodies.job, MinTextLength) : PostJobCompare(r, j)
    \/ \E s \in {""} \cup EdgeTexts(EdgeBodies.skills, MinSkillsLength) :
          \E role \in {"", "Frontend Developer"} : PostInterviewPrep(s, role)

SpecHttp == Init /\ [][NextHttp]_vars

-----------------------------------------------------------------------------
(* SpecCore: one call of one operation on a freshly started service, its   *)
(* inputs drawn from the texts of the model.                               *)

\* The texts compareResumeWithJob and extractSkills are applied to.
MatchYears == 5
MatchJobTexts ==
    {JobText(form, MatchYears, k) : form \in JobYearForms, k \in 1..Len(JobSkillPhrases)}
MatchResumeTexts == {ResumeText(0, k) : k \in 1..Len(ResumeSkillPhrases)}

\* The skill lists calculateMatchScore is applied to: the sublists of
\* SkillPool, in its order.
SkillPool == <<"java", "javascript", "React">>
\* The lists generateRecommendations is applied to: up to MaxMissing
\* required and as many preferred skills of the lexicon, and resumes that
\* hold none, some and all of them.
MaxMissing == 6
RecommendationInputs ==
    {<<res, SubSeq(techSkills, 1, n), SubSeq(techSkills, MaxMissing + 1, MaxMissing + m)>> :
        res \in {<<>>, <<"Python">>, <<"sql", "nodejs">>, techSkills},
        n \in 0..MaxMissing, m \in 0..MaxMissing}

\* The job texts of the outline calls: the opening lines of a posting,
\* followed by a body with the sections of its duties and requirements.
JobPostings ==
    {IF body = "" THEN head ELSE head \o "\n" \o body :
        head \in {
       "Position: Senior Backend Engineer",
       "Acme Labs\nPosition: Backend Engineer",
       "We are hiring a Data Analyst to grow the team",
       "we are hiring an engineer for the platform",
       "\n  \nopen job",
       "about the team\nwe build tools for schools",
       "one\ntwo\nthree\nfour\nfive\nPosition: Sixth Line",
       "Our studio builds web products and tools for schools and clubs.\nBackend Engineer",
       "the title:\nJob:",
       "now hiring  \nStaff Engineer wanted"},
        body \in {
       "",
       "Responsibilities:\n- Design and build the services of the platform\n2) Review code daily\nRequirements:\n1. Three years of work on web backends\n- Curious and kind",
       "Responsibilities:\n* Write the unit tests\n1. Write the unit tests.\nRequirements:\n- Write the unit tests\n- A degree in computing or the like",
       "Responsibilities:\n- Design and build the services of the platform\n- Share the on-call duties with the whole team\n2) Review code daily\n1. Write the unit tests.\nRequirements:\n1. Three years of work on web backends",
       "Responsibilities:\n- Keep the build green and the releases on schedule.Keep the build green and the releases on schedule.Keep the build green and the releases on schedule.Keep the build green and the releases on schedule.\n- Keep the build green and the releases on schedule.Keep the build green and the releases on schedule.Keep the build green and the releases on schedule.Keep the build green and the releases on schedule\nRequirements:\n- A degree in computing or the like",
       "Responsibilities:\n- Task number 1 of the weekly plan\n- Task number 2 of the weekly plan\n- Task number 3 of the weekly plan\n- Task number 4 of the weekly plan\n- Task number 5 of the weekly plan\n- Task number 6 of the weekly plan\n- Task number 7 of the weekly plan\n- Task number 8 of the weekly plan\n- Task number 9 of the weekly plan\nRequirements:\n1. Three years of work on web backends",
       "Responsibilities:\n- Design and build the services of the platform\nRequirements:\n- Task number 1 of the weekly plan\n- Task number 2 of the weekly plan\n- Task number 3 of the weekly plan\n- Task number 4 of the weekly plan\n- Task number 5 of the weekly plan\n- Task number 6 of the weekly plan\n- Task number 7 of the weekly plan\n- Task number 8 of the weekly plan\n- Task number 9 of the weekly plan",
       "Responsibilities:\n- Design and build the services of the platform\nRequirements:\n1. Three years of work on web backends\nAbout us\n- We are a small team of careful builders",
       "What you'll do\n- Design and build the services of the platform\n- Grow the skills of the junior engineers\n1. Write the unit tests.\nWhat we're looking for\n1. Three years of work on web backends",
       "- Design and build the services of the platform\n1. Three years of work on web backends",
       "Qualifications\n1. Three years of work on web backends\nResponsibilities\n- Design and build the services of the platform\n1. Write the unit tests."}}

SkillLists ==
    {SelectSeq(SkillPool, LAMBDA sk : sk \in chosen) : chosen \in SUBSET Range(SkillPool)}

CoreCall(op, resume, job, skills) ==
    [op |-> op, resume |-> resume, job |-> job, skills |-> skills]

CoreInputs ==
    {CoreCall("extractExperienceLevel", "", j, <<>>) : j \in JobTexts}
    \cup {CoreCall("analyzeExperience", r, "", <<>>) : r \in ResumeTexts}
    \cup {CoreCall("extractSkills", t, "", <<>>) : t \in MatchResumeTexts \cup MatchJobTexts}
    \cup {CoreCall("compareResumeWithJob", r, j, <<>>) :
            r \in MatchResumeTexts, j \in MatchJobTexts}
    \cup {CoreCall("calculateMatchScore", "", "", <<res, req, pref>>) :
            res \in SkillLists, req \in SkillLists, pref \in SkillLists}
    \cup {CoreCall("calculateMatchScore", "", "",
             << allSkills
                  \o <<"JSON", "XML", "HTTP", "TCP", "UDP", "DNS", "SSH", "SSL", "TLS", "JWT",
                  "ORM", "MVC", "TDD", "BDD", "SDK", "IDE", "CLI", "GUI", "OOP", "SOAP",
                  "YAML", "LDAP", "SMTP", "CDN", "VPN", "ETL", "KPI", "SLA", "CRM">>,
                <<"react">>,
                SelectSeq(allSkills, LAMBDA skill : skill # "react")
                  \o <<"JSON", "XML", "HTTP", "TCP", "UDP", "DNS", "SSH", "SSL", "TLS", "JWT",
                  "ORM", "MVC", "TDD", "BDD", "SDK", "IDE", "CLI", "GUI", "OOP", "SOAP",
                  "YAML", "LDAP", "SMTP", "CDN", "VPN", "ETL", "KPI", "SLA", "CRM",
                  "ERP">> >>)}
    \cup {CoreCall("extractSections", t, "", <<>>) : t \in SectionTexts \cup MatchResumeTexts}
    \cup {CoreCall("getInterviewPreparation", t, role, <<>>) :
            t \in SkillsTexts, role \in TargetRoles}
    \cup {CoreCall("diversifyQuestions", t, role, <<>>) :
            t \in SkillsTexts, role \in TargetRoles}
    \cup {CoreCall("calculateOverallScore", t, a, <<SubSeq(allSkills, 1, n)>>) :
            t \in ScoreTexts, a \in {"positive", "neutral", "negative"}, n \in 0..MaxSkills}
    \cup {CoreCall("extractExperience", t, "", <<>>) : t \in ExperienceTexts}
    \cup {CoreCall("generateRecommendations", "", "", lists) : lists \in RecommendationInputs}
    \cup {CoreCall("findSkillCategory", "", "", <<<<skill>>>>) : skill \in LookupSkills}
    \cup {CoreCall("analyzeSkills", r, "", <<>>) : r \in MatchResumeTexts}
    \cup {CoreCall("getSkillRecommendations",
                   join(SelectSeq(<<"react", "html", "nodejs", "api",
                                    "docker", "sql", "python", "AWS">>,
                                  LAMBDA skill : skill \in S)),
                   "", <<>>) :
             S \in SUBSET {"react", "html", "nodejs", "api",
                           "docker", "sql", "python", "AWS"}}
    \cup {CoreCall("jobOutline", "", t, <<>>) : t \in JobPostings}

InitCore ==
    /\ documents = [n \in Services |-> <<>>]
    /\ resp = NoResponse
    /\ skillsLog = {}
    /\ lastSkillCall = NoCall
    /\ coreIn \in CoreInputs
    /\ coreOut = NoResult

\* The call of coreIn has not been made yet.
CoreReady(op) == coreIn.op = op /\ coreOut = NoResult

CoreExtractExperienceLevel ==
    /\ CoreReady("extractExperienceLevel")
    /\ coreOut' = [op |-> coreIn.op, experienceLevel |-> experienceLevelOf[coreIn.job]]
    /\ UNCHANGED <<documents, resp, skillsLog, lastSkillCall, coreIn>>

CoreAnalyzeExperience ==
    /\ CoreReady("analyzeExperience")
    /\ coreOut' = [op |-> coreIn.op, experience |-> experienceOf[coreIn.resume]]
    /\ UNCHANGED <<documents, resp, skillsLog, lastSkillCall, coreIn>>

CoreExtractSkills ==
    /\ CoreReady("extractSkills")
    /\ coreOut' = [op |-> coreIn.op, skills |-> extractSkillsOf[coreIn.resume]]
    /\ UNCHANGED <<documents, resp, skillsLog, lastSkillCall, coreIn>>

CoreCompare ==
    /\ CoreReady("compareResumeWithJob")
    /\ coreOut' = [op |-> coreIn.op,
                   analysis |-> compareResumeWithJob(<<>>, coreIn.resume, coreIn.job).analysis]
    /\ UNCHANGED <<documents, resp, skillsLog, lastSkillCall, coreIn>>

CoreCalculateMatchScore ==
    /\ CoreReady("calculateMatchScore")
    /\ coreOut' = [op |-> coreIn.op,
                   matchScore |-> calculateMatchScore(coreIn.skills[1], coreIn.skills[2],
                                                      coreIn.skills[3])]
    /\ UNCHANGED <<documents, resp, skillsLog, lastSkillCall, coreIn>>

CoreExtractSections ==
    /\ CoreReady("extractSections")
    /\ coreOut' = [op |-> coreIn.op, sections |-> nlpExtractSections(coreIn.resume)]
    /\ UNCHANGED <<documents, resp, skillsLog, lastSkillCall, coreIn>>

\* skillsText is carried in the resume field, targetRole in the job field.
CoreGetInterviewPreparation ==
    /\ CoreReady("getInterviewPreparation")
    /\ coreOut' = [op |-> coreIn.op,
                   preparation |-> getInterviewPreparation(coreIn.resume, coreIn.job)]
    /\ UNCHANGED <<documents, resp, skillsLog, lastSkillCall, coreIn>>

\* diversifyQuestions on the list getInterviewPreparation gathers for the
\* skills text and the target role.
CoreDiversifyQuestions ==
    /\ CoreReady("diversifyQuestions")
    /\ coreOut' = [op |-> coreIn.op,
                   questions |-> gatheredQuestions(nlpExtractSkills(coreIn.resume),
                                                   coreIn.job),
                   diversified |-> diversifyQuestions(
                                       gatheredQuestions(nlpExtractSkills(coreIn.resume),
                                                         coreIn.job))]
    /\ UNCHANGED <<documents, resp, skillsLog, lastSkillCall, coreIn>>

\* The assessment is carried in the job field, skills.found in the skills
\* field.
CoreCalculateOverallScore ==
    /\ CoreReady("calculateOverallScore")
    /\ coreOut' = [op |-> coreIn.op,
                   sections |-> sectionsOf[coreIn.resume],
                   experience |-> analyzeExperience(coreIn.resume),
                   overallScore |-> calculateOverallScore(sectionsOf[coreIn.resume],
                                        [found |-> coreIn.skills[1]],
                                        analyzeExperience(coreIn.resume), coreIn.job)]
    /\ UNCHANGED <<documents, resp, skillsLog, lastSkillCall, coreIn>>

CoreExtractExperience ==
    /\ CoreReady("extractExperience")
    /\ coreOut' = [op |-> coreIn.op, years |-> nlpExtractExperience(coreIn.resume)]
    /\ UNCHANGED <<documents, resp, skillsLog, lastSkillCall, coreIn>>

CoreGenerateRecommendations ==
    /\ CoreReady("generateRecommendations")
    /\ coreOut' = [op |-> coreIn.op,
                   recommendations |-> generateRecommendations(coreIn.skills[1],
                                           coreIn.skills[2], coreIn.skills[3])]
    /\ UNCHANGED <<documents, resp, skillsLog, lastSkillCall, coreIn>>

\* The skill is carried in the skills field.
CoreFindSkillCategory ==
    /\ CoreReady("findSkillCategory")
    /\ coreOut' = [op |-> coreIn.op, category |-> findSkillCategory(coreIn.skills[1][1])]
    /\ UNCHANGED <<documents, resp, skillsLog, lastSkillCall, coreIn>>

\* The found skills of analyzeSkills and their grouping.
CoreAnalyzeSkills ==
    /\ CoreReady("analyzeSkills")
    /\ coreOut' = [op |-> coreIn.op,
                   found |-> extractSkillsOf[coreIn.resume],
                   byCategory |-> byCategory(extractSkillsOf[coreIn.resume])]
    /\ UNCHANGED <<documents, resp, skillsLog, lastSkillCall, coreIn>>

\* currentSkillsText is carried in the resume field.
CoreGetSkillRecommendations ==
    /\ CoreReady("getSkillRecommendations")
    /\ coreOut' = [op |-> coreIn.op,
                   recommendation |-> getSkillRecommendations(coreIn.resume)]
    /\ UNCHANGED <<documents, resp, skillsLog, lastSkillCall, coreIn>>

\* The role, the responsibilities and the qualifications that
\* analyzeJobDescription reads from the job text.
CoreJobOutline ==
    /\ CoreReady("jobOutline")
    /\ coreOut' = [op |-> coreIn.op,
                   role |-> extractRole(coreIn.job),
                   responsibilities |-> extractResponsibilities(coreIn.job),
                   qualifications |-> extractQualifications(coreIn.job)]
    /\ UNCHANGED <<documents, resp, skillsLog, lastSkillCall, coreIn>>

NextCore ==
    \/ CoreExtractExperienceLevel
    \/ CoreAnalyzeExperience
    \/ CoreExtractSkills
    \/ CoreCompare
    \/ CoreCalculateMatchScore
    \/ CoreExtractSections
    \/ CoreGetInterviewPreparation
    \/ CoreDiversifyQuestions
    \/ CoreCalculateOverallScore
    \/ CoreExtractExperience
    \/ CoreGenerateRecommendations
    \/ CoreFindSkillCategory
    \/ CoreAnalyzeSkills
    \/ CoreGetSkillRecommendations
    \/ CoreJobOutline

SpecCore == InitCore /\ [][NextCore]_vars

-----------------------------------------------------------------------------
(* The claims.                                                             *)

\* C1: for every resume text and every job text, the matchScore that
\* compareResumeWithJob returns, which calculateMatchScore computes from the
\* resume skills, the required skills and the preferred skills, is an
\* integer from 0 to 100.
C1_MatchScoreInRange ==
    /\ coreOut.op = "compareResumeWithJob" => coreOut.analysis.matchScore \in 0..100
    /\ coreOut.op = "calculateMatchScore" => coreOut.matchScore \in 0..100

\* C1, reached: compareResumeWithJob has returned a score strictly between
\* 0 and 100 for a job with required and preferred skills, some of each
\* matched and a required one missing.
C1_Witness ==
    /\ coreOut.op = "compareResumeWithJob"
    /\ LET resumeSkills == extractSkillsOf[coreIn.resume]
           job == coreOut.analysis
       IN /\ matchedOf(resumeSkills, job.requiredSkills) # <<>>
          /\ matchedOf(resumeSkills, job.preferredSkills) # <<>>
          /\ missingOf(resumeSkills, job.requiredSkills) # <<>>
          /\ job.matchScore \in 1..99

\* C2: whenever requiredSkills is empty calculateMatchScore returns exactly
\* 50, whatever the resume skills and the preferred skills are.
C2_EmptyRequiredGivesDefault ==
    /\ (coreOut.op = "compareResumeWithJob" /\ coreOut.analysis.requiredSkills = <<>>)
          => coreOut.analysis.matchScore = 50
    /\ (coreOut.op = "calculateMatchScore" /\ coreIn.skills[2] = <<>>)
          => coreOut.matchScore = 50

\* C2, reached: compareResumeWithJob has returned 50 for a job with no
\* required skill and three preferred skills that the resume all matches.
C2_Witness ==
    /\ coreOut.op = "compareResumeWithJob"
    /\ coreOut.analysis.requiredSkills = <<>>
    /\ Len(coreOut.analysis.preferredSkills) = 3
    /\ Len(matchedOf(extractSkillsOf[coreIn.resume], coreOut.analysis.preferredSkills)) = 3
    /\ coreOut.analysis.matchScore = 50

\* C3: on one NlpService instance, after any sequence of earlier
\* extractKeywords calls with other texts, extractKeywords(text, topN)
\* returns the ranked keyword list that a freshly constructed instance
\* returns for that text.
C3_KeywordsAsOnFreshInstance ==
    /\ resp.op = "analyzeResume"
          => resp.data.keywords = freshKeywords(resp.resume, ResumeTopN)
    /\ resp.op \in {"analyzeJobDescription", "compareResumeWithJob"}
          => resp.data.keywords = freshKeywords(resp.job, JobTopN)

\* C3, as the code behaves: the second extractKeywords call of the job
\* service, on another text, has returned terms of the first text, "react"
\* among them, which the other text does not hold.
C3_Witness ==
    LET first == JobText("both", 5, 1)
        other == JobText("none", 0, 4)
    IN /\ documents["job"] = <<documentOf[first], documentOf[other]>>
       /\ resp.op = "analyzeJobDescription"
       /\ resp.job = other
       /\ \A k \in 1..Len(resp.data.keywords) :
             documentHasTerm(resp.data.keywords[k], documentOf[first])
       /\ "react" \in Range(resp.data.keywords)
       /\ ~documentHasTerm("react", documentOf[other])

\* C4: every request returns the result, keywords included, that it would
\* return if it were the only request the service ever served.
C4_RequestsIndependent ==
    resp.op # "none" => resp.data = soloResponse(resp.op, resp.resume, resp.job)

\* C4, as the code behaves: a compareResumeWithJob request served after
\* another request has returned a result that differs from the result it
\* returns when served alone.
C4_Witness ==
    /\ resp.op = "compareResumeWithJob"
    /\ Len(documents["job"]) = 2
    /\ resp.data # soloResponse(resp.op, resp.resume, resp.job)

\* C5: no operation writes state that outlives its request: once a request
\* has returned, the term-frequency accumulator of the NlpService holds no
\* document.
C5_NoDocumentRetained == \A n \in Services : documents[n] = <<>>

\* C5, as the code behaves: after analyzeResume has returned, the
\* accumulator of the resume service holds the document of its text.
C5_Witness ==
    /\ resp.op = "analyzeResume"
    /\ documents["resume"] = <<documentOf[resp.resume]>>

\* C6: in analyzeJobDescription experienceLevel.level is a function of
\* experienceLevel.minimum: 8 and more gives "Senior/Lead", 5..7 "Senior",
\* 3..4 "Mid-Level", 1..2 "Junior" and 0 "Entry Level".
C6_JobLevelBoundaries ==
    coreOut.op = "extractExperienceLevel" =>
        LET minimum == coreOut.experienceLevel.minimum
            level == coreOut.experienceLevel.level
        IN /\ minimum >= 8 => level = "Senior/Lead"
           /\ minimum \in 5..7 => level = "Senior"
           /\ minimum \in 3..4 => level = "Mid-Level"
           /\ minimum \in 1..2 => level = "Junior"
           /\ minimum = 0 => level = "Entry Level"

\* C6, reached: a job text stating 8 years has been given "Senior/Lead",
\* the lower end of the top level.
C6_Witness ==
    /\ coreOut.op = "extractExperienceLevel"
    /\ coreOut.experienceLevel.minimum = 8
    /\ coreOut.experienceLevel.level = "Senior/Lead"

\* C7 as amended: in analyzeResume experience.level is a function of
\* experience.years: 0..1 gives "Entry Level", 2..4 "Intermediate", 5..9
\* "Senior" and 10 and more "Lead/Principal".
C7_ResumeLevelBoundaries ==
    coreOut.op = "analyzeExperience" =>
        LET years == coreOut.experience.years
            level == coreOut.experience.level
        IN /\ years \in 0..1 => level = "Entry Level"
           /\ years \in 2..4 => level = "Intermediate"
           /\ years \in 5..9 => level = "Senior"
           /\ years >= 10 => level = "Lead/Principal"

\* C7, reached: a resume stating 8 years has been given "Senior".
C7_Witness ==
    /\ coreOut.op = "analyzeExperience"
    /\ coreOut.experience.years = 8
    /\ coreOut.experience.level = "Senior"

\* C7 as stated: experience.level has the boundaries of the job path:
\* 1..2 gives "Entry Level", 3..4 "Intermediate", 5..7 "Senior" and every
\* years of 8 and more the top lead level.
C7_AsStated ==
    coreOut.op = "analyzeExperience" =>
        LET years == coreOut.experience.years
            level == coreOut.experience.level
        IN /\ years \in 1..2 => level = "Entry Level"
           /\ years \in 3..4 => level = "Intermediate"
           /\ years \in 5..7 => level = "Senior"
           /\ years >= 8 => level = "Lead/Principal"

\* C8: for a job text of the form "N+ years required, M+ years preferred"
\* with M distinct from N, analyzeJobDescription returns
\* experienceLevel.minimum = N and experienceLevel.preferred = M.
C8_PreferredYearsRead ==
    coreOut.op = "extractExperienceLevel" =>
        \A n \in 1..MaxYears, k \in 1..Len(JobSkillPhrases) :
            coreIn.job = JobText("both", n, k) =>
                /\ coreOut.experienceLevel.minimum = n
                /\ coreOut.experienceLevel.preferred = n + PrefGap

\* C8, as the code behaves: for "5+ years required, 8+ years preferred"
\* the preferred number returned is 5.
C8_Witness ==
    /\ coreOut.op = "extractExperienceLevel"
    /\ coreIn.job = JobText("both", 5, 1)
    /\ coreOut.experienceLevel.minimum = 5
    /\ coreOut.experienceLevel.preferred = 5

C10_SkillsReportedOnce ==
    coreOut.op = "extractSkills" =>
        \A i \in 1..Len(coreOut.skills), j \in 1..Len(coreOut.skills) :
            i # j => toLowerCase(coreOut.skills[i]) # toLowerCase(coreOut.skills[j])

\* C10, as the code behaves: extractSkills has returned both "aws", found
\* in the lexicon, and "AWS", found as an acronym.
C10_Witness ==
    /\ coreOut.op = "extractSkills"
    /\ "aws" \in Range(coreOut.skills)
    /\ "AWS" \in Range(coreOut.skills)

\* C11: extractSections sets the flag of a section exactly when one of the
\* section's synonyms occurs in the text, compared ignoring case; each flag
\* depends on its own synonyms only.
C11_SectionFlagsBySynonym ==
    coreOut.op = "extractSections" =>
        \A name \in Range(sectionNames) :
            coreOut.sections[name]
                = (\E k \in 1..Len(sectionPatterns[name]) :
                      includes(toLowerCase(coreIn.resume), sectionPatterns[name][k]))

\* C11: a text that holds "Objective" and not "summary" has been given the
\* summary flag and no other flag.
C11_Witness ==
    /\ coreOut.op = "extractSections"
    /\ includes(coreIn.resume, "Objective")
    /\ ~includes(toLowerCase(coreIn.resume), "summary")
    /\ \A name \in Range(sectionNames) : coreOut.sections[name] = (name = "summary")

\* C12: the questions getInterviewPreparation returns are at most 15 and no
\* two of them have the same question text, also when the questions of the
\* target role overlap the questions gathered by skill.
C12_QuestionsFewAndDistinct ==
    coreOut.op = "getInterviewPreparation" =>
        /\ Len(coreOut.preparation.questions) <= QuestionLimit
        /\ \A i \in 1..Len(coreOut.preparation.questions) :
              \A j \in 1..Len(coreOut.preparation.questions) :
                 i # j => coreOut.preparation.questions[i].question
                            # coreOut.preparation.questions[j].question

\* C12, as the code behaves: for the skill react and a frontend role the
\* same question has been returned twice.
C12_Witness ==
    /\ coreOut.op = "getInterviewPreparation"
    /\ "react" \in Range(coreOut.preparation.skills)
    /\ includes(toLowerCase(coreIn.job), "frontend")
    /\ \E i \in 1..Len(coreOut.preparation.questions) :
          \E j \in 1..Len(coreOut.preparation.questions) :
             /\ i < j
             /\ coreOut.preparation.questions[i] = coreOut.preparation.questions[j]
             /\ coreOut.preparation.questions[i].category = "Frontend"

\* C13: diversifyQuestions drops no question text of its input; its output
\* is the first five at most of the easy questions of the input, then of
\* the medium ones, then of the hard ones, each in input order, and after
\* them the questions of the input whose text is not there yet, in input
\* order and once each; the picks are at most 15, so that the truncation
\* to 15 keeps them all.
C13_DiversifyKeepsEveryQuestion ==
    coreOut.op = "diversifyQuestions" =>
        LET in == coreOut.questions
            out == coreOut.diversified
            At(d) == {i \in 1..Len(in) : in[i].difficulty = d}
            Picked(d) == {i \in At(d) : Cardinality({j \in At(d) : j < i}) < 5}
            Nth(S, n) == CHOOSE i \in S : Cardinality({j \in S : j <= i}) = n
            ne == Cardinality(Picked("easy"))
            nm == Cardinality(Picked("medium"))
            nh == Cardinality(Picked("hard"))
            picks == ne + nm + nh
            Left == {i \in 1..Len(in) :
                       /\ \A p \in Picked("easy") \cup Picked("medium") \cup Picked("hard") :
                             in[p].question # in[i].question
                       /\ \A j \in 1..(i - 1) : in[j].question # in[i].question}
        IN /\ \A i \in 1..Len(in) : \E k \in 1..Len(out) : out[k].question = in[i].question
           /\ Len(out) = picks + Cardinality(Left)
           /\ \A n \in 1..ne : out[n] = in[Nth(Picked("easy"), n)]
           /\ \A n \in 1..nm : out[ne + n] = in[Nth(Picked("medium"), n)]
           /\ \A n \in 1..nh : out[ne + nm + n] = in[Nth(Picked("hard"), n)]
           /\ \A n \in 1..Cardinality(Left) : out[picks + n] = in[Nth(Left, n)]
           /\ picks <= 15
           /\ SubSeq(SubSeq(out, 1, Min(15, Len(out))), 1, picks) = SubSeq(out, 1, picks)

\* C13: diversifyQuestions has been given more than five medium questions
\* and has returned more than 15 questions, leftovers after the picks.
C13_Witness ==
    /\ coreOut.op = "diversifyQuestions"
    /\ Cardinality({i \in 1..Len(coreOut.questions) :
                       coreOut.questions[i].difficulty = "medium"}) > 5
    /\ Len(coreOut.diversified) > 15
    /\ coreOut.diversified[Len(coreOut.diversified)].difficulty = "hard"

\* C14: a request whose resume or job text has a trimmed length of 49 or
\* less (9 or less for a skills text) is answered with the too-short error
\* and calls no service: no document is added and no skill extraction is
\* made; a request whose texts have a trimmed length of exactly 50 (10 for
\* a skills text) is served: the service is called and its analysis is
\* the response.
C14_LengthPrecondition ==
    [][LET op == resp'.op
           limit == IF op = "getInterviewPreparation" THEN 10 ELSE 50
           read == CASE op = "analyzeResume" -> {resp'.resume}
                     [] op = "analyzeJobDescription" -> {resp'.job}
                     [] op = "compareResumeWithJob" -> {resp'.resume, resp'.job}
                     [] op = "getInterviewPreparation" -> {resp'.resume}
       IN /\ (\E t \in read : Len(trim(t)) <= limit - 1) =>
                 /\ DOMAIN resp' = {"op", "resume", "job", "error"}
                 /\ resp'.error \in
                       {"Resume text is too short. Please provide at least 50 characters.",
                        "Job description is too short. Please provide at least 50 characters.",
                        "Resume text is too short", "Job description is too short",
                        "Please provide your skills for interview preparation"}
                 /\ documents' = documents
                 /\ skillsLog' = skillsLog
                 /\ lastSkillCall' = lastSkillCall
          /\ (\A t \in read : Len(trim(t)) = limit) =>
                 /\ DOMAIN resp' = {"op", "resume", "job", "data"}
                 /\ resp'.data = CASE limit = 10 -> getInterviewPreparation(resp'.resume, resp'.job)
                                   [] OTHER -> resp'.data
                 /\ IF limit = 10
                      THEN lastSkillCall'.text = resp'.resume
                      ELSE Len(documents'["resume"]) + Len(documents'["job"])
                              = Len(documents["resume"]) + Len(documents["job"]) + 1
      ]_vars

\* C14: after a resume of exactly 50 characters has been analysed, a
\* resume sent with more than 50 characters of which 49 remain when
\* trimmed has been rejected, and the service holds the one document.
C14_Witness ==
    /\ resp.op = "analyzeResume"
    /\ "error" \in DOMAIN resp
    /\ Len(resp.resume) > 50
    /\ Len(trim(resp.resume)) = 49
    /\ Len(documents["resume"]) = 1
    /\ \E c \in skillsLog : Len(c.text) = 50

\* C15: overallScore is an integer from 0 to 100, the rounding of the sum
\* of 40 * |sections.found| / 8, min(30 * |skills.found| / 10, 30), 15 for
\* years > 0 and 15, 10 or 5 for a positive, neutral or negative
\* assessment; sections.found has at most 8 entries and the sum does not
\* exceed 100.
C15_OverallScoreIsRoundedSum ==
    coreOut.op = "calculateOverallScore" =>
        LET f == Len(coreOut.sections.found)
            s == Len(coreIn.skills[1])
            tenSkills == IF 3 * s <= 30 THEN 3 * s ELSE 30
            e == IF coreOut.experience.years > 0 THEN 15 ELSE 0
            t == CASE coreIn.job = "positive" -> 15
                   [] coreIn.job = "neutral" -> 10
                   [] coreIn.job = "negative" -> 5
            \* eight times the sum: 40 * f / 8 is f * 40 eighths
            sum8 == 40 * f + 8 * (tenSkills + e + t)
        IN /\ coreOut.overallScore \in 0..100
           /\ f <= 8
           /\ sum8 <= 8 * 100
           /\ 2 * sum8 - 8 < 2 * 8 * coreOut.overallScore
           /\ 2 * 8 * coreOut.overallScore <= 2 * sum8 + 8

\* C15: a resume naming all 8 sections and stating years, with 11 skills
\* and a positive assessment, has been scored 100; the skills count 30.
C15_Witness ==
    /\ coreOut.op = "calculateOverallScore"
    /\ Len(coreOut.sections.found) = 8
    /\ Len(coreIn.skills[1]) = 11
    /\ coreOut.experience.years = 3
    /\ coreIn.job = "positive"
    /\ coreOut.overallScore = 100

\* C16: extractExperience returns the number captured by the first of the
\* patterns "N years", "N yrs", "N-M years" that matches, 0 when none
\* matches, and the lower bound N for a text whose only mention of years
\* is a range "N-M years".
C16_RangeGivesLowerBound ==
    coreOut.op = "extractExperience" =>
        LET text == coreIn.resume
            range == FirstMatch(text, 3)
        IN /\ (\A k \in 1..3 : FirstMatch(text, k) = 0) => coreOut.years = 0
           /\ range > 0 => coreOut.years = parseInt(Group1(text, range))

\* C16, as the code behaves: for the text whose only mention of years is
\* "3-6 years" extractExperience has returned 6.
C16_Witness ==
    /\ coreOut.op = "extractExperience"
    /\ coreIn.resume = "Worked 3-6 years on web products."
    /\ FirstMatch(coreIn.resume, 3) = 8
    /\ coreOut.years = 6

C18_RecommendationsOrder ==
    coreOut.op = "generateRecommendations" =>
        LET out == coreOut.recommendations
            Missing(skills) ==
                SelectSeq(skills, LAMBDA s : \A k \in 1..Len(coreIn.skills[1]) :
                    /\ ~includes(toLowerCase(coreIn.skills[1][k]), toLowerCase(s))
                    /\ ~includes(toLowerCase(s), toLowerCase(coreIn.skills[1][k])))
            First(xs, n) == SubSeq(xs, 1, IF Len(xs) < n THEN Len(xs) ELSE n)
            critical == "Critical: Add these required skills to your resume: "
                           \o join(First(Missing(coreIn.skills[2]), 5))
            enhance == "Enhance your profile with these preferred skills: "
                           \o join(First(Missing(coreIn.skills[3]), 3))
            Places(item) == {i \in 1..Len(out) : out[i] = item}
        IN /\ Len(out) >= 2
           /\ out[Len(out) - 1]
                 = "Tailor your resume to include keywords from this job description."
           /\ out[Len(out)]
                 = "Highlight projects or experiences that demonstrate the required skills."
           /\ IF Missing(coreIn.skills[2]) # <<>>
                THEN Places(critical) = {1}
                ELSE \A i \in 1..Len(out) : ~LitAt(out[i], 1, "critical")
           /\ IF Missing(coreIn.skills[3]) # <<>>
                THEN \E p \in 1..(Len(out) - 2) :
                        /\ Places(enhance) = {p}
                        /\ Missing(coreIn.skills[2]) # <<>> => p > 1
                ELSE \A i \in 1..Len(out) : ~LitAt(out[i], 1, "enhance")

\* C18: with six required and four preferred skills missing, five items
\* have been returned, the first naming five skills and the third three.
C18_Witness ==
    /\ coreOut.op = "generateRecommendations"
    /\ coreIn.skills[1] = <<>>
    /\ Len(coreIn.skills[2]) = 6
    /\ Len(coreIn.skills[3]) = 4
    /\ Len(coreOut.recommendations) = 5
    /\ coreOut.recommendations[1]
          = "Critical: Add these required skills to your resume: "
               \o "javascript, python, java, react, angular"
    /\ coreOut.recommendations[3]
          = "Enhance your profile with these preferred skills: nodejs, nestjs, express"

\* C19: every skill extracted from a job text is classified from the
\* lowercased text from 100 characters before its first occurrence to 100
\* characters after the start of that occurrence: required if "required",
\* "must have" or "essential" is there, also next to a preferred signal;
\* otherwise preferred if "preferred", "nice to have" or "bonus" is there;
\* otherwise required.
C19_SkillClassification ==
    coreOut.op = "compareResumeWithJob" =>
        LET Window(lower, p) ==
                SubSeq(lower, IF p > 100 THEN p - 100 ELSE 1,
                              IF p + 99 < Len(lower) THEN p + 99 ELSE Len(lower))
            FirstAt(lower, word) ==
                CHOOSE p \in 1..Len(lower) :
                    /\ SubSeq(lower, p, p + Len(word) - 1) = word
                    /\ \A q \in 1..(p - 1) : SubSeq(lower, q, q + Len(word) - 1) # word
            Bucket(window) ==
                IF \E w \in {"required", "must have", "essential"} : includes(window, w)
                  THEN "required"
                ELSE IF \E w \in {"preferred", "nice to have", "bonus"} : includes(window, w)
                  THEN "preferred"
                ELSE "required"
            BucketOf(lower, skill) == Bucket(Window(lower, FirstAt(lower, toLowerCase(skill))))
        IN \A s \in Range(extractSkillsOf[coreIn.job]) :
              /\ s \in Range(coreOut.analysis.requiredSkills)
                    <=> BucketOf(toLowerCase(coreIn.job), s) = "required"
              /\ s \in Range(coreOut.analysis.preferredSkills)
                    <=> BucketOf(toLowerCase(coreIn.job), s) = "preferred"

\* C19: a job text that says "required" and "Bonus: react" within 100
\* characters of the skill has had react classified as required, and no
\* skill as preferred.
C19_Witness ==
    /\ coreOut.op = "compareResumeWithJob"
    /\ coreIn.job = JobText("both", MatchYears, 2)
    /\ "react" \in Range(coreOut.analysis.requiredSkills)
    /\ coreOut.analysis.preferredSkills = <<>>

\* C20: every skill name of SKILLS_DATABASE, compared ignoring case, is
\* listed by at most one category, so that findSkillCategory's first match
\* is the only category of the skill and byCategory puts every found skill
\* under one category at most.
C20_OneCategoryPerSkill ==
    /\ coreOut.op = "findSkillCategory" =>
          {SKILLS_DATABASE[k].category : k \in
              {k \in 1..Len(SKILLS_DATABASE) :
                  \E i \in 1..Len(SKILLS_DATABASE[k].skills) :
                      toLowerCase(SKILLS_DATABASE[k].skills[i])
                         = toLowerCase(coreIn.skills[1][1])}}
             \subseteq {coreOut.category}
    /\ coreOut.op = "analyzeSkills" =>
          \A s \in Range(coreOut.found) :
             Cardinality({g \in 1..Len(coreOut.byCategory) :
                             s \in Range(coreOut.byCategory[g].skills)}) <= 1

\* C20, as the code behaves: the skill python of a resume has been put
\* under two categories.
C20_Witness ==
    /\ coreOut.op = "analyzeSkills"
    /\ \E g, h \in 1..Len(coreOut.byCategory) :
          /\ coreOut.byCategory[g].category = "Backend Development"
          /\ coreOut.byCategory[h].category = "Data Science & AI"
          /\ "python" \in Range(coreOut.byCategory[g].skills)
          /\ "python" \in Range(coreOut.byCategory[h].skills)

\* C21: generateSkillRecommendations returns ten items at most, as many as
\* were generated when those are fewer; no item of a lower priority comes
\* before one of a higher priority, and none is returned while a generated
\* item of a higher priority is left out; and the items of one priority
\* are, in order, the first items of that priority that were generated
\* (the gaps of the categories in taxonomy order, then the items of the
\* fixed rules).
C21_SortedStableTopTen ==
    coreOut.op = "getSkillRecommendations" =>
       /\ Len(coreOut.recommendation.recommendedSkills)
             = Min(10, Len(pushedRecommendations(
                   Tuple([i \in 1..Len(coreOut.recommendation.currentSkills) |->
                      toLowerCase(coreOut.recommendation.currentSkills[i])]), 1)))
       /\ \A i, j \in 1..Len(coreOut.recommendation.recommendedSkills) :
             i < j =>
                <<coreOut.recommendation.recommendedSkills[i].priority,
                  coreOut.recommendation.recommendedSkills[j].priority>>
                   \in {<<"high", "high">>, <<"high", "medium">>, <<"high", "low">>,
                        <<"medium", "medium">>, <<"medium", "low">>, <<"low", "low">>}
       /\ \A p \in {"high", "medium", "low"} :
             SelectSeq(coreOut.recommendation.recommendedSkills,
                       LAMBDA r : r.priority = p)
                = SubSeq(SelectSeq(pushedRecommendations(
                            Tuple([i \in 1..Len(coreOut.recommendation.currentSkills) |->
                               toLowerCase(coreOut.recommendation.currentSkills[i])]), 1),
                            LAMBDA r : r.priority = p),
                         1,
                         Len(SelectSeq(coreOut.recommendation.recommendedSkills,
                                       LAMBDA r : r.priority = p)))
       /\ \A pq \in {<<"high", "medium">>, <<"high", "low">>, <<"medium", "low">>} :
             (\E i \in 1..Len(coreOut.recommendation.recommendedSkills) :
                 coreOut.recommendation.recommendedSkills[i].priority = pq[2])
                => Len(SelectSeq(coreOut.recommendation.recommendedSkills,
                                 LAMBDA r : r.priority = pq[1]))
                      = Len(SelectSeq(pushedRecommendations(
                               Tuple([i \in 1..Len(coreOut.recommendation.currentSkills) |->
                                  toLowerCase(coreOut.recommendation.currentSkills[i])]), 1),
                               LAMBDA r : r.priority = pq[1]))

\* C21: ten recommendations have been returned for a react developer: the
\* two of high priority, generated after the gaps of the frontend
\* category, come first, and the gaps that follow are in taxonomy order.
C21_Witness ==
    /\ coreOut.op = "getSkillRecommendations"
    /\ coreOut.recommendation.currentSkills = <<"react">>
    /\ Len(coreOut.recommendation.recommendedSkills) = 10
    /\ [i \in 1..5 |-> coreOut.recommendation.recommendedSkills[i].skill]
          = <<"TypeScript", "Jest (Unit Testing)", "HTML", "CSS", "JavaScript">>
    /\ coreOut.recommendation.recommendedSkills[2].priority = "high"
    /\ coreOut.recommendation.recommendedSkills[3].priority = "medium"

\* C22: suggestCareerPaths returns one path at least; the full-stack path
\* is among them exactly when the skills hold one of react, angular, vue
\* and one of nodejs, python, java; the paths come in the order frontend,
\* backend, full stack, DevOps, data; and the generic path is returned,
\* alone, exactly when none of the five rules matches.
C22_CareerPaths ==
    coreOut.op = "getSkillRecommendations" =>
       LET skillsLower == {toLowerCase(coreOut.recommendation.currentSkills[i]) :
                              i \in 1..Len(coreOut.recommendation.currentSkills)}
           paths == coreOut.recommendation.careerPaths
           order == <<"Frontend Developer → Senior Frontend → Frontend Architect",
                      "Backend Developer → Senior Backend → Backend Architect",
                      "Full Stack Developer → Senior Full Stack → Tech Lead",
                      "DevOps Engineer → Senior DevOps → DevOps Architect",
                      "Data Analyst → Data Scientist → ML Engineer">>
           generic == "Software Developer → Senior Developer → Tech Lead → Engineering Manager"
           rules == <<skillsLower \cap {"react", "angular", "vue", "html", "css"} # {},
                      skillsLower \cap {"nodejs", "python", "java", "api"} # {},
                      /\ skillsLower \cap {"react", "angular", "vue"} # {}
                      /\ skillsLower \cap {"nodejs", "python", "java"} # {},
                      skillsLower \cap {"docker", "kubernetes", "aws", "cicd"} # {},
                      skillsLower \cap {"python", "sql", "machine learning"} # {}>>
       IN /\ Len(paths) >= 1
          /\ order[3] \in Range(paths) <=> rules[3]
          /\ \/ paths = <<generic>>
             \/ /\ Range(paths) \subseteq Range(order)
                /\ \A i, j \in 1..Len(paths) :
                      i < j => \E a, b \in 1..5 :
                                  a < b /\ order[a] = paths[i] /\ order[b] = paths[j]
          /\ generic \in Range(paths) <=> \A a \in 1..5 : ~rules[a]
          /\ \A a \in 1..5 : rules[a] => order[a] \in Range(paths)

\* C22: the five paths have been returned, in order, for skills that meet
\* every rule.
C22_Witness ==
    /\ coreOut.op = "getSkillRecommendations"
    /\ Len(coreOut.recommendation.careerPaths) = 5
    /\ coreOut.recommendation.careerPaths[3]
          = "Full Stack Developer → Senior Full Stack → Tech Lead"
    /\ "react" \in Range(coreOut.recommendation.currentSkills)
    /\ "python" \in Range(coreOut.recommendation.currentSkills)

\* C22: the generic path alone has been returned for a text without a
\* skill of the five rules.
C22_WitnessGeneric ==
    /\ coreOut.op = "getSkillRecommendations"
    /\ coreOut.recommendation.currentSkills = <<>>
    /\ Len(coreOut.recommendation.careerPaths) = 1

\* C29: no two entries of the recommendedSkills of getSkillRecommendations
\* name the same skill, letter case set aside.
C29_NoSkillRecommendedTwice ==
    coreOut.op = "getSkillRecommendations" =>
       \A i, j \in 1..Len(coreOut.recommendation.recommendedSkills) :
          i # j => toLowerCase(coreOut.recommendation.recommendedSkills[i].skill)
                      # toLowerCase(coreOut.recommendation.recommendedSkills[j].skill)

\* C29, as the code behaves: TypeScript has been recommended twice to a
\* react developer, by the rule of the frontend frameworks and as a gap of
\* the frontend category.
C29_Witness ==
    /\ coreOut.op = "getSkillRecommendations"
    /\ \E i, j \in 1..Len(coreOut.recommendation.recommendedSkills) :
          /\ i < j
          /\ coreOut.recommendation.recommendedSkills[i].skill = "TypeScript"
          /\ coreOut.recommendation.recommendedSkills[i].priority = "high"
          /\ coreOut.recommendation.recommendedSkills[j].skill = "TypeScript"
          /\ coreOut.recommendation.recommendedSkills[j].priority = "medium"

\* C23: extractRole looks at the first five lines that are not blank. If
\* one of the two patterns matches one of them, the role is a text
\* captured from them; only when no pattern matches any of them is the
\* role the first of them that is shorter than 50 characters and starts
\* with a capital letter; without such a line it is "Not specified".
C23_PatternsBeforeTitle ==
    coreOut.op = "jobOutline" =>
       LET lines == slice(SelectSeq(split(coreIn.job),
                                    LAMBDA line : Len(trim(line)) > 0), 5)
           captured == {roleMatch(lines[i], toLowerCase(lines[i]), k)[1] :
                           i \in {i \in 1..Len(lines) :
                                     roleMatch(lines[i], toLowerCase(lines[i]), 1) # <<>>},
                           k \in {1}}
                       \cup {roleMatch(lines[i], toLowerCase(lines[i]), k)[1] :
                           i \in {i \in 1..Len(lines) :
                                     roleMatch(lines[i], toLowerCase(lines[i]), 2) # <<>>},
                           k \in {2}}
           titles == {i \in 1..Len(lines) :
                         Len(lines[i]) < 50 /\ CharAt(lines[i], 1) \in Uppers}
       IN IF captured # {} THEN coreOut.role \in captured
          ELSE IF titles # {}
            THEN coreOut.role = trim(lines[CHOOSE i \in titles : \A j \in titles : i <= j])
          ELSE coreOut.role = "Not specified"

\* C23, as the code behaves: the short capitalised first line of a posting
\* has been returned as its role although the second line states the
\* position.
C23_Witness ==
    /\ coreOut.op = "jobOutline"
    /\ coreIn.job = "Acme Labs\nPosition: Backend Engineer"
    /\ roleMatch("Position: Backend Engineer", "position: backend engineer", 1)
          = <<"Backend Engineer">>
    /\ coreOut.role = "Acme Labs"

\* C24: extractResponsibilities and extractQualifications return eight
\* items at most: the lines after the first line with a start marker of
\* the section and before the first later line with a marker of a
\* complementary section, each with its bullet or numbering taken off,
\* kept exactly when what is left has between 20 and 200 characters, both
\* included.
C24_SectionItems ==
    coreOut.op = "jobOutline" =>
       LET lines == split(coreIn.job)
           items(start, stop) ==
              LET starts == {i \in 1..Len(lines) : regexTest(start, trim(lines[i]))}
                  first == IF starts = {} THEN Len(lines) + 1
                           ELSE CHOOSE i \in starts : \A j \in starts : i <= j
                  stops == {i \in (first + 1)..Len(lines) : regexTest(stop, trim(lines[i]))}
                  last == IF stops = {} THEN Len(lines) + 1
                          ELSE CHOOSE i \in stops : \A j \in stops : i <= j
                  inside == [i \in 1..(last - first - 1) |-> cleaned(trim(lines[first + i]))]
              IN IF last - first <= 1 THEN <<>>
                 ELSE SubSeq(SelectSeq(inside, LAMBDA c : Len(c) >= 20 /\ Len(c) <= 200),
                             1, Min(8, Len(SelectSeq(inside,
                                       LAMBDA c : Len(c) >= 20 /\ Len(c) <= 200))))
       IN /\ coreOut.responsibilities
               = items(<<"responsibilities", "duties", "what you'll do">>,
                       <<"qualifications", "requirements", "skills">>)
          /\ coreOut.qualifications
               = items(<<"qualifications", "requirements", "what we're looking for">>,
                       <<"responsibilities", "about us", "company">>)

\* C24, as the code behaves: of two lines inside the responsibilities of a
\* posting, the one of 21 characters has been returned and the one of 20
\* characters has not.
C24_Witness ==
    /\ coreOut.op = "jobOutline"
    /\ Len(split(coreIn.job)) >= 3
    /\ split(coreIn.job)[2] = "Responsibilities:"
    /\ cleaned(split(coreIn.job)[3]) = "Write the unit tests"
    /\ Len(cleaned(split(coreIn.job)[3])) = 20
    /\ coreOut.responsibilities = <<"Write the unit tests.">>

C26_BucketsPartitionSkills ==
    coreOut.op = "compareResumeWithJob" =>
       /\ Range(coreOut.analysis.requiredSkills)
             \cap Range(coreOut.analysis.preferredSkills) = {}
       /\ \A i, j \in 1..Len(coreOut.analysis.requiredSkills) :
             i # j => coreOut.analysis.requiredSkills[i] # coreOut.analysis.requiredSkills[j]
       /\ \A i, j \in 1..Len(coreOut.analysis.preferredSkills) :
             i # j => coreOut.analysis.preferredSkills[i] # coreOut.analysis.preferredSkills[j]
       /\ Range(coreOut.analysis.requiredSkills) \cup Range(coreOut.analysis.preferredSkills)
             = Range(nlpExtractSkills(coreIn.job))

\* C26: the skills of a job text have been split into required ones, aws
\* in both its spellings among them, and three preferred ones.
C26_Witness ==
    /\ coreOut.op = "compareResumeWithJob"
    /\ {"aws", "AWS", "python"} \subseteq Range(coreOut.analysis.requiredSkills)
    /\ Range(coreOut.analysis.preferredSkills) = {"docker", "graphql", "azure"}
    /\ Len(nlpExtractSkills(coreIn.job)) = 6

\* C27: for the same required and preferred skills, a resume with one more
\* skill is never given a lower score by calculateMatchScore.
C27_ScoreMonotone ==
    coreOut.op = "calculateMatchScore" =>
       \A skill \in {"java", "javascript", "React", "sql", "Script"} :
          calculateMatchScore(Append(coreIn.skills[1], skill),
                              coreIn.skills[2], coreIn.skills[3])
             >= coreOut.matchScore

\* C27: a resume with java has been scored 65 against the required
\* javascript and React, and the same resume with React added is scored
\* 100.
C27_Witness ==
    /\ coreOut.op = "calculateMatchScore"
    /\ coreIn.skills = << <<"java">>, <<"javascript", "React">>, <<>> >>
    /\ coreOut.matchScore = 65
    /\ calculateMatchScore(<<"java", "React">>, <<"javascript", "React">>, <<>>) = 100

\* C28: in what compareResumeWithJob returns for a job with required
\* skills, matchScore is 100 exactly when the recommendations are the two
\* closing tips alone; the same of the score and the recommendations its
\* two helpers give for the same lists.
C28_FullScoreIffTipsOnly ==
    /\ (coreOut.op = "compareResumeWithJob" /\ coreOut.analysis.requiredSkills # <<>>) =>
          (coreOut.analysis.matchScore = 100
             <=> coreOut.analysis.recommendations
                   = << "Tailor your resume to include keywords from this job description.",
                        "Highlight projects or experiences that demonstrate the required skills." >>)
    /\ (coreOut.op = "calculateMatchScore" /\ coreIn.skills[2] # <<>>) =>
          (coreOut.matchScore = 100
             <=> generateRecommendations(coreIn.skills[1], coreIn.skills[2], coreIn.skills[3])
                   = << "Tailor your resume to include keywords from this job description.",
                        "Highlight projects or experiences that demonstrate the required skills." >>)

\* C28, as the code behaves: a resume that lacks one of the 61 preferred
\* skills of a job text and has its required skill has been scored 100,
\* and the recommendations for it name the skill it lacks.
C28_Witness ==
    /\ coreOut.op = "calculateMatchScore"
    /\ coreOut.matchScore = 100
    /\ Len(coreIn.skills[3]) = 61
    /\ Len(generateRecommendations(coreIn.skills[1], coreIn.skills[2], coreIn.skills[3])) = 3
    /\ generateRecommendations(coreIn.skills[1], coreIn.skills[2], coreIn.skills[3])[1]
          = "Enhance your profile with these preferred skills: ERP"
    /\ jobExtractSkills("Must have react. The group ships one small change a day and "
                         \o "reads every note from the people who rely on the product, we"
                         \o "ek after week. Bonus: javascript, python, java, angular, vue"
                         \o ", nodejs, nestjs, express, mongodb, sql. Bonus: postgresql, "
                         \o "docker, kubernetes, aws, azure, gcp, git, typescript, html, "
                         \o "css. Bonus: rest, graphql, api, leadership, communication, t"
                         \o "eamwork, problem solving. Bonus: analytical, creative, manag"
                         \o "ement, collaboration, JSON, XML, HTTP, TCP, UDP, DNS. Bonus:"
                         \o " SSH, SSL, TLS, JWT, ORM, MVC, TDD, BDD, SDK, IDE, CLI, GUI,"
                         \o " OOP, SOAP, YAML. Bonus: LDAP, SMTP, CDN, VPN, ETL, KPI, SLA"
                         \o ", CRM, ERP. ")
          = [required |-> coreIn.skills[2], preferred |-> coreIn.skills[3]]
    /\ nlpExtractSkills("Skills: Also javascript, python, java, react, angular, vue, "
                         \o "nodejs, nestjs, express, mongodb. Also sql, postgresql, dock"
                         \o "er, kubernetes, aws, azure, gcp, git, typescript, html, css."
                         \o " Also rest, graphql, api, leadership, communication, teamwor"
                         \o "k, problem solving. Also analytical, creative, management, c"
                         \o "ollaboration, JSON, XML, HTTP, TCP, UDP, DNS. Also SSH, SSL,"
                         \o " TLS, JWT, ORM, MVC, TDD, BDD, SDK, IDE, CLI, GUI, OOP, SOAP"
                         \o ", YAML, LDAP. Also SMTP, CDN, VPN, ETL, KPI, SLA, CRM. ")
          = coreIn.skills[1]

=============================================================================
